---- MODULE Spec2Model ----
(***************************************************************************)
(* SID register-event pipeline of pico-playground: the event ring and the  *)
(* cycle scheduler of sid_engine (src/unnamed/part_002) and the device's   *)
(* FDIS frame parser (src/scanvideo/siddler_pico/siddler_pico.c).          *)
(*                                                                         *)
(* Widths are scaled: uint32_t is WordBits wide, the ring has              *)
(* kEventQueueSize slots, the SID clock is kC64ClockHz.  All arithmetic    *)
(* on uint32_t values is taken modulo 2^WordBits, as the code's is modulo  *)
(* 2^32.                                                                   *)
(***************************************************************************)
EXTENDS Integers, Sequences, FiniteSets, TLC

\* ---------------------------------------------------------------- bounds
WordBits == 3
kEventQueueSize == 4
kC64ClockHz == 5
MaxPush == 4
SERIAL_BUFFER_SIZE == 32
CFG_TUD_CDC_RX_BUFSIZE == 8
SIDDLER_AUDIO_BUFFER_SAMPLES == 2
PoolBuffers == 3
MaxItems == 2
SIDDLER_AUDIO_SAMPLE_RATE == 2
MaxNoteOn == 2
MaxResetPush == 2
TEXT_COLS == 2
MaxContent == 2
MaxHostEvents == 2
LARGE_CDC_RX_BUFSIZE == 40
MantissaBits == 4
FracBits == 3
MaxTally == 4
MaxVoiceOn == 5

\* ------------------------------------------------------- wire constants
SID_MAGIC == 1397310534
MaxFrameCount == 8192
SizeofHeader == 12
SizeofEvent == 8

Word == 2 ^ WordBits
UINT32_MAX == Word - 1
\* saturation point of the observer's cycle counter
GhostCap == Word

\* inputs of queue_event that the wire can carry
Deltas == {0, 1, 2, UINT32_MAX}
Masks == {2}
Addrs == {37}
Values == {119}
\* configured sample rates: below and above the SID clock
SampleRates == {SIDDLER_AUDIO_SAMPLE_RATE, 2 * kC64ClockHz}

Cells == {0, 1}
Slots == 0 .. (kEventQueueSize - 1)

Min(a, b) == IF a < b THEN a ELSE b

BlankEvent == [chip_mask |-> 0, addr |-> 0, value |-> 0, delta |-> 0]
BlankTag == [id |-> 0, pdelta |-> 0, chained |-> FALSE]
NoDrop == [valid |-> FALSE, resid |-> 0, nextDelta |-> 0, ctn |-> 0]
NoTally == [follow |-> FALSE, valid |-> FALSE, exact |-> FALSE, renders |-> 0,
            cycles |-> 0]
NoRender == [valid |-> FALSE, cycles |-> 0, rclk |-> [c \in Cells |-> 0],
             zeroRun |-> FALSE, passes |-> 0]
BlankHeader == [i \in 1 .. SizeofHeader |-> 0]
BlankStats == [frames |-> 0, events_total |-> 0, bytes_total |-> 0]

VARIABLES
    \* sid_engine
    g_event_queue,            \* ring slots: chip_mask, addr, value, delta
    g_event_head,
    g_event_tail,
    g_cycles_to_next_event,
    g_event_drop_count,
    g_cycle_residual,         \* the double, in units of 2^-FracBits
    g_sample_rate_hz,
    sid_regs,                 \* registers of the two SID cells
    g_channel_model,          \* chip model of each cell
    g_voices,                 \* the three note slots
    g_voice_generation,
    \* siddler_audio
    siddler_audio_enabled,
    pool_free,                \* free buffers of the producer pool
    \* siddler_pico
    audio_ready,
    tud_mounted,              \* what tud_mounted() returns
    tud_suspended,            \* what tud_suspended() returns
    cdc_online,
    cdc_suspended,
    cdc_rx,                   \* bytes in the CDC receive FIFO
    usb_wire,                 \* bytes the host has written, not yet in the FIFO
    cdc_tx,                   \* bytes the device has written to the CDC port
    serial_buffer,            \* its length is serial_buffer_len
    have_header,
    current_header,           \* the 12 bytes copied from the buffer
    events_remaining,
    frame_event_count,
    current_frame_bytes,
    sid_stats,
    main_pc,                  \* the next call of main's loop
    \* observer state (not in the program)
    slot_tag,                 \* per slot: push number, pushed delta, chained
    pushed,                   \* number of queue_event calls so far
    pushedSum,                \* exact sum of the deltas pushed since the last reset,
                              \* kept while quiet
    quiet,                    \* no render_frame since the last reset
    applied,                  \* the events applied to the cells by the last operation
    lastId,                   \* push number of the last event applied
    lastPdelta,               \* delta that event was pushed with
    since,                    \* cycles clocked since the last application (saturating)
    clocked,                  \* a clock call happened since the last application
    lastRender,               \* the last render_frame of the last operation
    lastDrop,                 \* the overflow drop of the last operation
    buffer_frames,            \* stereo frames written into the audio buffer last taken
    buffer_sample_count,      \* sample_count of the audio buffer last taken
    tally,                    \* renders and cycles clocked since the last reset
    voice_trace,              \* the slots in the order of their last note_on
    stream,                   \* the items the host sends in this session
    buf_base,                 \* stream position of serial_buffer[0]
    discards,                 \* parser-buffer overflow discards so far
    stored_in_bounds,         \* no store outside serial_buffer, no offset past its length
    delivered,                \* arguments of the sid_engine_queue_event calls
    completed,                \* arguments of the complete_sid_frame calls
    \* the status screen, shared by the two cores
    firmware,                 \* the build: "siddler_pico" or "part_007"
    sid_state_lock,           \* "free", or the core that holds it
    screen_lines,             \* the cells of one status row
    screen_line_cache,
    screen_line_cache_valid,
    writer_pc,                \* core 0 inside set_screen_line
    writer_col,
    render_pc,                \* core 1 inside the scanline render
    render_col,
    row_chars,
    row_valid,
    \* the output stage of sid_engine_render_frame
    samples,                  \* output() of the two cells
    pcm,                      \* the stereo frame written: left, right
    \* sidtap2serial, the forwarder on the host
    g_voice_mute_mask,
    g_filter_enabled,
    g_cycle_carry,
    serial_written            \* the last writev to the serial device

engineVars == <<g_event_queue, g_event_head, g_event_tail, g_cycles_to_next_event,
                g_event_drop_count, g_cycle_residual, g_sample_rate_hz, sid_regs,
                g_channel_model, g_voices, g_voice_generation>>
engineGhost == <<slot_tag, pushed, pushedSum, quiet, applied, lastId, lastPdelta,
                 since, clocked, lastRender, lastDrop, buffer_frames,
                 buffer_sample_count, tally, voice_trace>>
audioVars == <<siddler_audio_enabled, pool_free, audio_ready>>
usbVars == <<tud_mounted, tud_suspended, cdc_rx, usb_wire, cdc_tx, stream>>
parserVars == <<cdc_online, cdc_suspended, serial_buffer, have_header, current_header,
                events_remaining, frame_event_count, current_frame_bytes,
                sid_stats, main_pc, buf_base, discards, stored_in_bounds,
                delivered, completed>>
screenVars == <<firmware, sid_state_lock, screen_lines, screen_line_cache,
                screen_line_cache_valid, writer_pc, writer_col, render_pc,
                render_col, row_chars, row_valid>>
mixVars == <<samples, pcm>>
hostVars == <<g_voice_mute_mask, g_filter_enabled, g_cycle_carry, serial_written>>
\* the variables the device's operations leave alone
asideVars == <<screenVars, mixVars, hostVars>>
\* the variables the screen's operations leave alone
deviceMinusHost == <<engineVars, engineGhost, audioVars, usbVars, parserVars,
                     mixVars>>
deviceVars == <<engineVars, engineGhost, audioVars, usbVars, parserVars, mixVars,
                hostVars>>
vars == <<engineVars, engineGhost, audioVars, usbVars, parserVars, screenVars,
          mixVars, hostVars>>

\* ------------------------------------------------------------ the engine
\* The operators below work on a record e holding the engine's globals and
\* the observer's fields, so that they compose as the C++ functions do.

advance_index(idx) == (idx + 1) % kEventQueueSize

event_queue_empty(e) == e.head = e.tail

\* mutation: a zero mask selects no cell
apply_event_cells_nodefault(chip_mask) ==
    LET mask == chip_mask % 4
    IN  {c \in Cells : IF c = 0 THEN mask % 2 = 1 ELSE (mask \div 2) % 2 = 1}

\* the cells apply_event writes: mask & 3, zero meaning both
apply_event_cells(chip_mask) ==
    LET m == chip_mask % 4
        mask == IF m = 0 THEN 3 ELSE m
    IN  {c \in Cells : IF c = 0 THEN mask % 2 = 1 ELSE (mask \div 2) % 2 = 1}

apply_event(e, slot) ==
    LET ev == e.queue[slot]
        cs == apply_event_cells(ev.chip_mask)
        a  == ev.addr % 32
    IN  [e EXCEPT
           !.regs = [c \in Cells |->
                        IF c \in cs THEN [e.regs[c] EXCEPT ![a] = ev.value]
                                    ELSE e.regs[c]],
           !.applied = Append(@, [id |-> e.tag[slot].id,
                                  prev |-> e.lastId,
                                  prevPdelta |-> e.lastPdelta,
                                  delta |-> ev.delta,
                                  pdelta |-> e.tag[slot].pdelta,
                                  chained |-> e.tag[slot].chained,
                                  chip_mask |-> ev.chip_mask,
                                  cells |-> cs,
                                  addr |-> a,
                                  value |-> ev.value,
                                  gap |-> e.since,
                                  clocked |-> e.clocked]),
           !.lastId = e.tag[slot].id,
           !.lastPdelta = e.tag[slot].pdelta,
           !.tag[slot] = BlankTag,
           !.since = 0,
           !.clocked = FALSE]

pop_event(e) ==
    LET h == advance_index(e.head)
    IN  [e EXCEPT !.head = h,
                  !.ctn = IF h = e.tail THEN UINT32_MAX ELSE e.queue[h].delta]

\* mutation: takes the newest event instead of the head
pop_and_apply_newest(e) ==
    pop_event(apply_event(e, (e.tail + kEventQueueSize - 1) % kEventQueueSize))

\* pop_event(&ev) followed by apply_event(ev)
pop_and_apply(e) == pop_event(apply_event(e, e.head))

\* mutation: zero-delta events are left for the clocking loop
apply_zero_delta_events_lazy(e) == e

RECURSIVE apply_zero_delta_events(_)
apply_zero_delta_events(e) ==
    IF ~event_queue_empty(e) /\ e.queue[e.head].delta = 0
    THEN apply_zero_delta_events(pop_and_apply(e))
    ELSE e

\* mutation: the head is dropped without being counted
drop_oldest_event_uncounted(e) ==
    IF event_queue_empty(e) THEN e
    ELSE
      LET next == advance_index(e.head)
          merged == (e.queue[next].delta + e.queue[e.head].delta) % Word
      IN  IF next # e.tail
          THEN [e EXCEPT !.tag[e.head] = BlankTag,
                         !.queue[next].delta = merged,
                         !.head = next,
                         !.ctn = merged]
          ELSE [e EXCEPT !.tag[e.head] = BlankTag,
                         !.head = next,
                         !.ctn = UINT32_MAX]

drop_oldest_event(e) ==
    IF event_queue_empty(e) THEN e
    ELSE
      LET dropped == e.queue[e.head]
          next == advance_index(e.head)
          merged == (e.queue[next].delta + dropped.delta) % Word
      IN  IF next # e.tail
          THEN [e EXCEPT !.drops = (@ + 1) % Word,
                         !.tag[e.head] = BlankTag,
                         !.queue[next].delta = merged,
                         !.head = next,
                         !.ctn = merged,
                         !.lastDrop = [valid |-> TRUE,
                                       resid |-> e.ctn,
                                       nextDelta |-> e.queue[next].delta,
                                       ctn |-> merged]]
          ELSE [e EXCEPT !.drops = (@ + 1) % Word,
                         !.tag[e.head] = BlankTag,
                         !.head = next,
                         !.ctn = UINT32_MAX]

sid_engine_get_queue_depth(head, tail) ==
    IF tail >= head THEN tail - head ELSE kEventQueueSize - head + tail

\* mutation: the oldest event is dropped one event before the ring is full
sid_engine_queue_event_early(e0, chip_mask, addr, value, delta_cycles) ==
    LET full == sid_engine_get_queue_depth(e0.head, e0.tail) >= kEventQueueSize - 2
        e1 == IF full THEN drop_oldest_event(e0) ELSE e0
        next_tail == advance_index(e1.tail)
        e2 == [e1 EXCEPT
                 !.queue[e1.tail] = [chip_mask |-> chip_mask, addr |-> addr,
                                     value |-> value, delta |-> delta_cycles],
                 !.tag[e1.tail] = [id |-> e0.pushed + 1, pdelta |-> delta_cycles,
                                   chained |-> ~event_queue_empty(e1)],
                 !.tail = next_tail,
                 !.pushed = @ + 1,
                 !.pushedSum = IF e0.quiet THEN @ + delta_cycles ELSE 0]
    IN  IF e2.ctn = UINT32_MAX
        THEN apply_zero_delta_events([e2 EXCEPT !.ctn = e2.queue[e2.head].delta])
        ELSE e2

sid_engine_queue_event(e0, chip_mask, addr, value, delta_cycles) ==
    LET full == advance_index(e0.tail) = e0.head
        e1 == IF full THEN drop_oldest_event(e0) ELSE e0
        next_tail == advance_index(e1.tail)
        e2 == [e1 EXCEPT
                 !.queue[e1.tail] = [chip_mask |-> chip_mask, addr |-> addr,
                                     value |-> value, delta |-> delta_cycles],
                 !.tag[e1.tail] = [id |-> e0.pushed + 1, pdelta |-> delta_cycles,
                                   chained |-> ~event_queue_empty(e1)],
                 !.tail = next_tail,
                 !.pushed = @ + 1,
                 !.pushedSum = IF e0.quiet THEN @ + delta_cycles ELSE 0]
    IN  IF e2.ctn = UINT32_MAX
        THEN apply_zero_delta_events([e2 EXCEPT !.ctn = e2.queue[e2.head].delta])
        ELSE e2

\* SID16::clock(run) on both cells
clock_cells(e, run) ==
    [e EXCEPT !.since = Min(@ + run, GhostCap),
              !.clocked = TRUE,
              !.lastRender.rclk = [c \in Cells |-> @[c] + run],
              !.lastRender.zeroRun = @ \/ run = 0,
              !.lastRender.passes = @ + 1]

\* mutation: events are only looked at once per sample
RECURSIVE render_loop_per_sample(_, _)
render_loop_per_sample(e, cycles_remaining) ==
    IF cycles_remaining <= 0 THEN e
    ELSE
      LET pending == ~event_queue_empty(e) /\ e.ctn # UINT32_MAX
          run == cycles_remaining
          e1 == clock_cells(e, run)
          e2 == IF ~pending THEN e1
                ELSE IF e1.ctn > run THEN [e1 EXCEPT !.ctn = @ - run]
                ELSE apply_zero_delta_events(
                        pop_and_apply([e1 EXCEPT !.ctn = 0]))
      IN  render_loop_per_sample(e2, cycles_remaining - run)

\* mutation: the run to a pending event is not limited to the cycles that
\* remain of the sample
RECURSIVE render_loop_overrun(_, _)
render_loop_overrun(e, cycles_remaining) ==
    IF cycles_remaining <= 0 THEN e
    ELSE
      LET pending == ~event_queue_empty(e) /\ e.ctn # UINT32_MAX
          run == IF pending THEN e.ctn ELSE cycles_remaining
          e1 == clock_cells(e, run)
          e2 == IF ~pending THEN e1
                ELSE apply_zero_delta_events(
                        pop_and_apply([e1 EXCEPT !.ctn = 0]))
      IN  render_loop_overrun(e2, cycles_remaining - run)

\* the while (cycles_remaining > 0) loop of sid_engine_render_frame
RECURSIVE render_loop(_, _)
render_loop(e, cycles_remaining) ==
    IF cycles_remaining <= 0 THEN e
    ELSE
      LET pending == ~event_queue_empty(e) /\ e.ctn # UINT32_MAX
          run == IF pending /\ e.ctn < cycles_remaining THEN e.ctn
                 ELSE cycles_remaining
          e1 == clock_cells(e, run)
          e2 == IF ~pending THEN e1
                ELSE IF e1.ctn > run THEN [e1 EXCEPT !.ctn = @ - run]
                ELSE apply_zero_delta_events(
                        pop_and_apply([e1 EXCEPT !.ctn = (@ - run) % Word]))
      IN  render_loop(e2, cycles_remaining - run)

\* A double keeps MantissaBits significant bits.  Values are held in units
\* of 2^-FracBits: below 2^MantissaBits units every unit is a double, above
\* it the doubles are the multiples of the ulp.
One == 2 ^ FracBits

RECURSIVE BitLength(_)
BitLength(n) == IF n = 0 THEN 0 ELSE 1 + BitLength(n \div 2)

UlpOfLength(bits) ==
    IF bits > MantissaBits THEN 2 ^ (bits - MantissaBits) ELSE 1

Ulp(units) == UlpOfLength(BitLength(units))

\* of the doubles lo and lo + ulp around num / den the nearer one, a tie
\* going to the even mantissa
NearerOf(num, den, ulp, lo) ==
    IF 2 * (num - lo * den) < ulp * den THEN lo
    ELSE IF 2 * (num - lo * den) > ulp * den THEN lo + ulp
    ELSE IF (lo \div ulp) % 2 = 0 THEN lo ELSE lo + ulp

RoundWithUlp(num, den, ulp) ==
    NearerOf(num, den, ulp, ((num \div den) \div ulp) * ulp)

\* the double nearest to num / den units, ties to the even mantissa
RoundToDouble(num, den) == RoundWithUlp(num, den, Ulp(num \div den))

\* g_cycles_per_sample = kC64ClockHz / static_cast<double>(g_sample_rate_hz)
g_cycles_per_sample(rate) == RoundToDouble(kC64ClockHz * One, rate)

\* the sum of two doubles
double_add(a, b) == RoundToDouble(a + b, 1)

\* the cast to uint32_t and what is left, at least one cycle per sample
SplitCycles(r) ==
    IF r \div One < 1 THEN [cycles |-> 1, residual |-> 0]
    ELSE [cycles |-> r \div One, residual |-> r % One]

\* mutation: no forced cycle when the rate exceeds the clock
render_cycles_unforced(residual, rate) ==
    [cycles |-> double_add(residual, g_cycles_per_sample(rate)) \div One,
     residual |-> double_add(residual, g_cycles_per_sample(rate)) % One]

\* mutation: the fraction left over is not carried to the next sample
render_cycles_uncarried(residual, rate) ==
    [SplitCycles(double_add(residual, g_cycles_per_sample(rate)))
        EXCEPT !.residual = 0]

\* the cycle count of this sample and the residual carried to the next:
\* the sum is rounded, the cast truncates, the subtraction is exact
render_cycles(residual, rate) ==
    SplitCycles(double_add(residual, g_cycles_per_sample(rate)))

\* the observer counts the renders and the cycles since the last reset, as
\* long as it is asked to follow them, and notes whether the quotient and
\* every sum so far were exact
StartTally(follow, rate) ==
    [follow |-> follow, valid |-> follow,
     exact |-> follow /\ g_cycles_per_sample(rate) * rate = kC64ClockHz * One,
     renders |-> 0, cycles |-> 0]

CountRender(t, residual, rate, cycles) ==
    IF ~t.valid THEN t
    ELSE IF t.renders >= MaxTally
    THEN [t EXCEPT !.valid = FALSE, !.exact = FALSE, !.renders = 0, !.cycles = 0]
    ELSE [t EXCEPT !.renders = @ + 1,
                   !.cycles = @ + cycles,
                   !.exact = @ /\ double_add(residual, g_cycles_per_sample(rate))
                                     = residual + g_cycles_per_sample(rate)]

\* sid_engine_render_frame with both output pointers set, as its caller
\* siddler_audio_fill_buffer passes them
sid_engine_render_frame(e) ==
    LET rc == render_cycles(e.residual, e.rate)
        e0 == [e EXCEPT !.lastRender = [valid |-> TRUE, cycles |-> rc.cycles,
                                        rclk |-> [c \in Cells |-> 0],
                                        zeroRun |-> FALSE, passes |-> 0]]
        e1 == render_loop(apply_zero_delta_events(e0), rc.cycles)
    IN  [e1 EXCEPT !.residual = rc.residual, !.quiet = FALSE, !.pushedSum = 0,
                   !.tally = CountRender(@, e.residual, e.rate, rc.cycles)]

sid_engine_reset_queue_state(e) ==
    [e EXCEPT !.head = 0, !.tail = 0, !.ctn = UINT32_MAX, !.drops = 0,
              !.residual = 0,
              !.tag = [i \in Slots |-> BlankTag],
              !.pushedSum = 0, !.quiet = TRUE,
              !.tally = StartTally(@.follow, e.rate)]

kReleaseRate == 4
kWaveformSaw == 32

\* g_voices
Voices == 0 .. 2
BlankVoice == [active |-> FALSE, note |-> 0, velocity |-> 0, generation |-> 0]

\* observer of the note calls since the slots were last cleared: the active
\* slots in the order of their last note_on, oldest first, and whether the
\* last note call was a note_on that found its note sounding
NoTrace == [order |-> <<>>, retriggered |-> FALSE]

Triggered(t, found, voice) ==
    [order |-> Append(SelectSeq(t.order, LAMBDA i : i # voice), voice),
     retriggered |-> found >= 0]

Released(t, voice) ==
    [order |-> SelectSeq(t.order, LAMBDA i : i # voice),
     retriggered |-> FALSE]

LastTriggered(t) == IF t.order = <<>> THEN -1 ELSE t.order[Len(t.order)]

\* register state after ensure_engine_initialised: voice defaults, filter
\* off, volume max
DefaultRegs ==
    [a \in 0 .. 31 |->
        IF a \in {3, 10, 17} THEN 8
        ELSE IF a \in {4, 11, 18} THEN 32
        ELSE IF a \in {5, 12, 19} THEN 17
        ELSE IF a \in {6, 13, 20} THEN 244
        ELSE IF a = 24 THEN 15
        ELSE 0]

\* mutation: the note slots are left as they are
sid_engine_init_keep_voices(e, sample_rate_hz) ==
    [e EXCEPT !.rate = sample_rate_hz,
              !.residual = 0,
              !.tally = StartTally(@.follow, sample_rate_hz),
              !.regs = [c \in Cells |-> DefaultRegs]]

\* sid_engine_init(sample_rate_hz): the cells are reset, the note slots
\* cleared, the queue is kept
sid_engine_init(e, sample_rate_hz) ==
    [e EXCEPT !.rate = sample_rate_hz,
              !.residual = 0,
              !.tally = StartTally(@.follow, sample_rate_hz),
              !.regs = [c \in Cells |-> DefaultRegs],
              !.voices = [i \in Voices |-> BlankVoice],
              !.trace = NoTrace]

\* midi_note_to_sid for the notes whole octaves from A4: 440 * 2^k Hz times
\* 2^24 over the SID clock, rounded, saturated at 65535
NoteHz(midi_note) ==
    IF midi_note >= 69 THEN 440 * 2 ^ ((midi_note - 69) \div 12)
    ELSE 440 \div 2 ^ ((69 - midi_note) \div 12)

midi_note_to_sid(midi_note) ==
    LET hz == NoteHz(midi_note)
    IN  IF hz > (65535 * kC64ClockHz) \div 16777216 THEN 65535
        ELSE (2 * hz * 16777216 + kC64ClockHz) \div (2 * kC64ClockHz)

velocity_to_sustain(velocity) ==
    IF velocity = 0 THEN 0 ELSE Min((velocity * 15 + 63) \div 127, 15)

\* the slot playing the note, or -1
find_voice_for_note(e, midi_note) ==
    LET hits == {i \in Voices : e.voices[i].active /\ e.voices[i].note = midi_note}
    IN  IF hits = {} THEN -1 ELSE CHOOSE i \in hits : \A j \in hits : i <= j

\* mutation: with no slot free, slot 0 is taken whatever its generation
allocate_voice_slot_steal_first(e) ==
    LET free == {i \in Voices : ~e.voices[i].active}
    IN  IF free # {} THEN CHOOSE i \in free : \A j \in free : i <= j
        ELSE 0

\* the first inactive slot, or the first slot of the oldest generation
allocate_voice_slot(e) ==
    LET free == {i \in Voices : ~e.voices[i].active}
        oldest == {i \in Voices : \A j \in Voices :
                      e.voices[i].generation <= e.voices[j].generation}
    IN  IF free # {} THEN CHOOSE i \in free : \A j \in free : i <= j
        ELSE CHOOSE i \in oldest : \A j \in oldest : i <= j

\* mutation: a slot is allocated without looking for the note
sid_engine_note_on_always_allocate(e, midi_note, velocity) ==
    LET found == -1
        voice == IF found < 0 THEN allocate_voice_slot(e) ELSE found
        generation == (e.voice_generation + 1) % Word
        sid_freq == midi_note_to_sid(midi_note)
        base == voice * 7
        written == [a \in 0 .. 31 |->
                      IF a = base THEN sid_freq % 256
                      ELSE IF a = base + 1 THEN sid_freq \div 256
                      ELSE IF a = base + 6
                      THEN (velocity_to_sustain(velocity) * 16 + kReleaseRate) % 256
                      ELSE IF a = base + 4 THEN kWaveformSaw + 1
                      ELSE -1]
    IN  [e EXCEPT !.voice_generation = generation,
                  !.trace = Triggered(@, found, voice),
                  !.voices[voice] = [active |-> TRUE, note |-> midi_note,
                                     velocity |-> velocity,
                                     generation |-> generation],
                  !.regs = [c \in Cells |->
                               [a \in 0 .. 31 |->
                                   IF written[a] >= 0 THEN written[a]
                                   ELSE e.regs[c][a]]]]

sid_engine_note_on(e, midi_note, velocity) ==
    LET found == find_voice_for_note(e, midi_note)
        voice == IF found < 0 THEN allocate_voice_slot(e) ELSE found
        generation == (e.voice_generation + 1) % Word
        sid_freq == midi_note_to_sid(midi_note)
        base == voice * 7
        written == [a \in 0 .. 31 |->
                      IF a = base THEN sid_freq % 256
                      ELSE IF a = base + 1 THEN sid_freq \div 256
                      ELSE IF a = base + 6
                      THEN (velocity_to_sustain(velocity) * 16 + kReleaseRate) % 256
                      ELSE IF a = base + 4 THEN kWaveformSaw + 1
                      ELSE -1]
    IN  [e EXCEPT !.voice_generation = generation,
                  !.trace = Triggered(@, found, voice),
                  !.voices[voice] = [active |-> TRUE, note |-> midi_note,
                                     velocity |-> velocity,
                                     generation |-> generation],
                  !.regs = [c \in Cells |->
                               [a \in 0 .. 31 |->
                                   IF written[a] >= 0 THEN written[a]
                                   ELSE e.regs[c][a]]]]

sid_engine_note_off(e, midi_note) ==
    LET voice == find_voice_for_note(e, midi_note)
    IN  IF voice < 0 THEN [e EXCEPT !.trace = Released(@, voice)]
        ELSE [e EXCEPT !.regs = [c \in Cells |->
                                    [e.regs[c] EXCEPT ![voice * 7 + 4] = kWaveformSaw]],
                       !.voices[voice].active = FALSE,
                       !.trace = Released(@, voice)]

\* mutation: the cells are set up again even when the models are the
\* current ones
sid_engine_set_channel_models_always(e, left_6581, right_6581) ==
    sid_engine_init([e EXCEPT !.model = [c \in Cells |->
                                  IF (IF c = 0 THEN left_6581 ELSE right_6581)
                                  THEN "MOS6581" ELSE "MOS8580"]],
                    IF e.rate = 0 THEN SIDDLER_AUDIO_SAMPLE_RATE ELSE e.rate)

\* sid_engine_set_channel_models: nothing happens when the models are the
\* current ones, otherwise the cells are set up again with the new models
sid_engine_set_channel_models(e, left_6581, right_6581) ==
    LET new_models == [c \in Cells |->
                          IF (IF c = 0 THEN left_6581 ELSE right_6581)
                          THEN "MOS6581" ELSE "MOS8580"]
    IN  IF new_models = e.model THEN e
        ELSE sid_engine_init([e EXCEPT !.model = new_models],
                             IF e.rate = 0 THEN SIDDLER_AUDIO_SAMPLE_RATE
                             ELSE e.rate)

\* the record of the current state, at the start of an operation
Eng == [queue |-> g_event_queue, head |-> g_event_head, tail |-> g_event_tail,
        ctn |-> g_cycles_to_next_event, drops |-> g_event_drop_count,
        residual |-> g_cycle_residual, rate |-> g_sample_rate_hz,
        regs |-> sid_regs, model |-> g_channel_model,
        voices |-> g_voices, voice_generation |-> g_voice_generation, tag |-> slot_tag, pushed |-> pushed,
        pushedSum |-> pushedSum, quiet |-> quiet, applied |-> <<>>,
        lastId |-> lastId, lastPdelta |-> lastPdelta, since |-> since,
        clocked |-> clocked, lastRender |-> NoRender, lastDrop |-> NoDrop,
        buffer_frames |-> buffer_frames,
        buffer_sample_count |-> buffer_sample_count, tally |-> tally,
        trace |-> voice_trace]

\* store the record's fields back into the variables
Commit(e) ==
    /\ g_event_queue' = e.queue
    /\ g_event_head' = e.head
    /\ g_event_tail' = e.tail
    /\ g_cycles_to_next_event' = e.ctn
    /\ g_event_drop_count' = e.drops
    /\ g_cycle_residual' = e.residual
    /\ g_sample_rate_hz' = e.rate
    /\ sid_regs' = e.regs
    /\ g_channel_model' = e.model
    /\ g_voices' = e.voices
    /\ g_voice_generation' = e.voice_generation
    /\ slot_tag' = e.tag
    /\ pushed' = e.pushed
    /\ pushedSum' = e.pushedSum
    /\ quiet' = e.quiet
    /\ applied' = e.applied
    /\ lastId' = e.lastId
    /\ lastPdelta' = e.lastPdelta
    /\ since' = e.since
    /\ clocked' = e.clocked
    /\ lastRender' = e.lastRender
    /\ lastDrop' = e.lastDrop
    /\ buffer_frames' = e.buffer_frames
    /\ buffer_sample_count' = e.buffer_sample_count
    /\ tally' = e.tally
    /\ voice_trace' = e.trace

\* the engine after sid_engine_reset_queue_state and sid_engine_init(rate)
FreshEngine(rate) ==
    [queue |-> [i \in Slots |-> BlankEvent], head |-> 0, tail |-> 0,
     ctn |-> UINT32_MAX, drops |-> 0, residual |-> 0, rate |-> rate,
     regs |-> [c \in Cells |-> DefaultRegs],
     model |-> [c \in Cells |-> IF c = 0 THEN "MOS6581" ELSE "MOS8580"],
     voices |-> [i \in Voices |-> BlankVoice], voice_generation |-> 0,
     tag |-> [i \in Slots |-> BlankTag], pushed |-> 0, pushedSum |-> 0,
     quiet |-> TRUE, applied |-> <<>>, lastId |-> 0, lastPdelta |-> 0,
     since |-> 0, clocked |-> FALSE, lastRender |-> NoRender,
     lastDrop |-> NoDrop, buffer_frames |-> 0, buffer_sample_count |-> 0,
     tally |-> NoTally, trace |-> NoTrace]

InitEngine(e) ==
    /\ g_event_queue = e.queue
    /\ g_event_head = e.head
    /\ g_event_tail = e.tail
    /\ g_cycles_to_next_event = e.ctn
    /\ g_event_drop_count = e.drops
    /\ g_cycle_residual = e.residual
    /\ g_sample_rate_hz = e.rate
    /\ sid_regs = e.regs
    /\ g_channel_model = e.model
    /\ g_voices = e.voices
    /\ g_voice_generation = e.voice_generation
    /\ slot_tag = e.tag
    /\ pushed = e.pushed
    /\ pushedSum = e.pushedSum
    /\ quiet = e.quiet
    /\ applied = e.applied
    /\ lastId = e.lastId
    /\ lastPdelta = e.lastPdelta
    /\ since = e.since
    /\ clocked = e.clocked
    /\ lastRender = e.lastRender
    /\ lastDrop = e.lastDrop
    /\ buffer_frames = e.buffer_frames
    /\ buffer_sample_count = e.buffer_sample_count
    /\ tally = e.tally
    /\ voice_trace = e.trace

\* the status screen after clear_status_lines, both cores outside it
BlankRow == [col \in 1 .. TEXT_COLS |-> 0]

\* sidtap2serial before the first frame: nothing muted, nothing written
NoWrite == [kind |-> "none", count |-> 0, events |-> <<>>, command |-> <<>>]

HostIdle ==
    /\ g_voice_mute_mask = 0
    /\ g_filter_enabled = TRUE
    /\ g_cycle_carry = 0
    /\ serial_written = NoWrite

ScreenIdle ==
    /\ firmware = "siddler_pico"
    /\ sid_state_lock = "free"
    /\ screen_lines = BlankRow
    /\ screen_line_cache = BlankRow
    /\ screen_line_cache_valid = FALSE
    /\ writer_pc = "idle"
    /\ writer_col = 0
    /\ render_pc = "idle"
    /\ render_col = 0
    /\ row_chars = BlankRow
    /\ row_valid = FALSE
    /\ samples = <<0, 0>>
    /\ pcm = <<0, 0>>
    /\ HostIdle

\* the device part while no host is attached
IdleDevice ==
    /\ siddler_audio_enabled = TRUE
    /\ audio_ready = TRUE
    /\ pool_free = PoolBuffers
    /\ tud_mounted = FALSE
    /\ tud_suspended = FALSE
    /\ cdc_online = FALSE
    /\ cdc_suspended = FALSE
    /\ cdc_rx = <<>>
    /\ usb_wire = <<>>
    /\ cdc_tx = <<>>
    /\ stream = <<>>
    /\ serial_buffer = <<>>
    /\ have_header = FALSE
    /\ current_header = BlankHeader
    /\ events_remaining = 0
    /\ frame_event_count = 0
    /\ current_frame_bytes = 0
    /\ sid_stats = BlankStats
    /\ main_pc = "process"
    /\ buf_base = 0
    /\ discards = 0
    /\ stored_in_bounds = TRUE
    /\ delivered = <<>>
    /\ completed = <<>>

InitIdle ==
    /\ IdleDevice
    /\ ScreenIdle

\* ------------------------------------------------- the engine's operations
Init ==
    /\ \E rate \in SampleRates : InitEngine(FreshEngine(rate))
    /\ InitIdle

QueueEvent(chip_mask, addr, value, delta_cycles) ==
    /\ pushed < MaxPush
    /\ Commit(sid_engine_queue_event(Eng, chip_mask, addr, value, delta_cycles))
    /\ UNCHANGED <<audioVars, usbVars, parserVars, asideVars>>

RenderFrame ==
    /\ Commit(sid_engine_render_frame(Eng))
    /\ UNCHANGED <<audioVars, usbVars, parserVars, asideVars>>

ResetQueueState ==
    /\ Commit(sid_engine_reset_queue_state(Eng))
    /\ UNCHANGED <<audioVars, usbVars, parserVars, asideVars>>

Next ==
    \/ \E m \in Masks, a \in Addrs, v \in Values, d \in Deltas :
          QueueEvent(m, a, v, d)
    \/ RenderFrame
    \/ ResetQueueState

Spec == Init /\ [][Next]_vars

\* the engine with the renders counted since the last reset, at a rate whose
\* cycles_per_sample is a double and at one where the quotient is rounded
ResidualRates == {2, 3}
ResidualDeltas == {1}

InitResidual ==
    /\ \E rate \in ResidualRates :
          InitEngine([FreshEngine(rate) EXCEPT !.tally = StartTally(TRUE, rate)])
    /\ InitIdle

NextResidual ==
    \/ \E m \in Masks, a \in Addrs, v \in Values, d \in ResidualDeltas :
          QueueEvent(m, a, v, d)
    \/ RenderFrame
    \/ ResetQueueState

SpecResidual == InitResidual /\ [][NextResidual]_vars

\* chip-mask coverage: every mask value, applied at the push or by a render
ChipEvents == {<<m, 0>> : m \in {0, 1, 2, 3, 4, 5}} \cup {<<6, 1>>}

NextChip ==
    \/ \E ev \in ChipEvents, a \in Addrs, v \in Values :
          QueueEvent(ev[1], a, v, ev[2])
    \/ RenderFrame
    \/ ResetQueueState

SpecChip == Init /\ [][NextChip]_vars

\* ------------------------------------------------------------- the device
\* siddler_audio and siddler_pico work on a record d holding the engine
\* record (eng), the audio state and the parser's statics.

\* a little-endian uint32_t field of a struct copied with memcpy
U32LE(bytes, off) ==
    bytes[off + 1] + 256 * bytes[off + 2] + 65536 * bytes[off + 3]
        + 16777216 * bytes[off + 4]

\* the bytes of a uint32_t in memory
U32Bytes(x) ==
    <<x % 256, (x \div 256) % 256, (x \div 65536) % 256, (x \div 16777216) % 256>>

\* sid_header_t fields of the copied header
header_magic_ok(hdr) == SubSeq(hdr, 1, 4) = U32Bytes(SID_MAGIC)
header_count(hdr) == U32LE(hdr, 4)
header_frame(hdr) == U32LE(hdr, 8)

\* sid_event_t read from the buffer at offset
decode_event(buf, offset) ==
    [chip |-> buf[offset + 1], addr |-> buf[offset + 2],
     value |-> buf[offset + 3], pad |-> buf[offset + 4],
     delta |-> U32LE(buf, offset + 4)]

\* the for loop of siddler_audio_fill_buffer: one render_frame per sample,
\* its two outputs written as the next stereo frame of the buffer
RECURSIVE fill_frames(_, _)
fill_frames(e, count) ==
    IF count = 0 THEN e
    ELSE fill_frames([sid_engine_render_frame(e) EXCEPT !.buffer_frames = @ + 1],
                     count - 1)

\* mutation: the last frame of the buffer is left unwritten
siddler_audio_fill_buffer_one_short(e, max_sample_count) ==
    [fill_frames(e, max_sample_count - 1) EXCEPT
        !.buffer_sample_count = max_sample_count]

\* siddler_audio_fill_buffer for a buffer of max_sample_count frames
siddler_audio_fill_buffer(e, max_sample_count) ==
    [fill_frames(e, max_sample_count) EXCEPT
        !.buffer_sample_count = max_sample_count]

\* take_audio_buffer(pool, false), fill, give_audio_buffer; the pool hands
\* out a buffer of SIDDLER_AUDIO_BUFFER_SAMPLES frames
siddler_audio_take_fill_give(d) ==
    IF d.pool_free = 0 THEN d
    ELSE [d EXCEPT !.eng = siddler_audio_fill_buffer(
                               [@ EXCEPT !.buffer_frames = 0,
                                         !.buffer_sample_count = 0],
                               SIDDLER_AUDIO_BUFFER_SAMPLES),
                   !.pool_free = @ - 1]

siddler_audio_prime_buffers(d) ==
    siddler_audio_take_fill_give(siddler_audio_take_fill_give(d))

siddler_audio_task(d) ==
    IF ~d.enabled THEN d ELSE siddler_audio_take_fill_give(d)

\* siddler_audio_shutdown: the I2S output is stopped, the engine is kept
siddler_audio_shutdown(d) ==
    IF d.enabled THEN [d EXCEPT !.enabled = FALSE] ELSE d

\* mutation: the reset clears the queue and leaves the cells alone
siddler_audio_reset_state_queue_only(d) ==
    IF ~d.enabled THEN d
    ELSE [d EXCEPT !.eng = sid_engine_reset_queue_state(@)]

siddler_audio_reset_state(d) ==
    IF ~d.enabled THEN d
    ELSE [d EXCEPT !.eng = sid_engine_init(sid_engine_reset_queue_state(@),
                                           SIDDLER_AUDIO_SAMPLE_RATE)]

\* siddler_audio_init when the pool and the I2S setup succeed
siddler_audio_init(d) ==
    IF d.enabled THEN d
    ELSE siddler_audio_prime_buffers(
            [d EXCEPT !.enabled = TRUE,
                      !.eng = sid_engine_set_channel_models(
                                 sid_engine_init(sid_engine_reset_queue_state(@),
                                                 SIDDLER_AUDIO_SAMPLE_RATE),
                                 TRUE, TRUE)])

\* mutation: the event is queued whether audio is enabled or not
siddler_audio_queue_event_ungated(d, chip_mask, addr, value, delta_cycles) ==
    [d EXCEPT
       !.eng = sid_engine_queue_event(@, chip_mask, addr % 32, value,
                                      delta_cycles % Word),
       !.delivered = Append(@, [chip_mask |-> chip_mask,
                                addr |-> addr % 32,
                                value |-> value,
                                delta_cycles |-> delta_cycles])]

\* the delta is a uint32_t argument: the engine holds it at the model's
\* word width, the log of the call keeps the value passed
siddler_audio_queue_event(d, chip_mask, addr, value, delta_cycles) ==
    IF ~d.enabled THEN d
    ELSE [d EXCEPT
            !.eng = sid_engine_queue_event(@, chip_mask, addr % 32, value,
                                           delta_cycles % Word),
            !.delivered = Append(@, [chip_mask |-> chip_mask,
                                     addr |-> addr % 32,
                                     value |-> value,
                                     delta_cycles |-> delta_cycles])]

\* the statistics part of complete_sid_frame
\* mutation: the frame's events are taken off the running total
complete_sid_frame_subtracting(d, frame_index) ==
    [d EXCEPT
       !.stats = [frames |-> @.frames + 1,
                  events_total |-> @.events_total - d.frame_event_count,
                  bytes_total |-> @.bytes_total + d.current_frame_bytes],
       !.completed = Append(@, [frame |-> frame_index,
                                events |-> d.frame_event_count,
                                bytes |-> d.current_frame_bytes]),
       !.frame_event_count = 0,
       !.current_frame_bytes = 0]

complete_sid_frame(d, frame_index) ==
    [d EXCEPT
       !.stats = [frames |-> @.frames + 1,
                  events_total |-> @.events_total + d.frame_event_count,
                  bytes_total |-> @.bytes_total + d.current_frame_bytes],
       !.completed = Append(@, [frame |-> frame_index,
                                events |-> d.frame_event_count,
                                bytes |-> d.current_frame_bytes]),
       !.frame_event_count = 0,
       !.current_frame_bytes = 0]

\* mutation: a failed magic check skips the four bytes compared
parse_header_skip_word(d) ==
    LET hdr == SubSeq(d.buf, d.offset + 1, d.offset + SizeofHeader)
        d1 == [d EXCEPT !.hdr = hdr]
    IN  IF ~header_magic_ok(hdr) THEN [d1 EXCEPT !.offset = @ + 4]
        ELSE IF header_count(hdr) > MaxFrameCount THEN [d1 EXCEPT !.offset = @ + 1]
        ELSE [d1 EXCEPT !.have_header = TRUE,
                        !.events_remaining = header_count(hdr),
                        !.frame_event_count = 0,
                        !.current_frame_bytes = SizeofHeader,
                        !.offset = @ + SizeofHeader]

\* mutation: the largest count is rejected too
parse_header_reject_max(d) ==
    LET hdr == SubSeq(d.buf, d.offset + 1, d.offset + SizeofHeader)
        d1 == [d EXCEPT !.hdr = hdr]
    IN  IF ~header_magic_ok(hdr) THEN [d1 EXCEPT !.offset = @ + 1]
        ELSE IF header_count(hdr) >= MaxFrameCount THEN [d1 EXCEPT !.offset = @ + 1]
        ELSE [d1 EXCEPT !.have_header = TRUE,
                        !.events_remaining = header_count(hdr),
                        !.frame_event_count = 0,
                        !.current_frame_bytes = SizeofHeader,
                        !.offset = @ + SizeofHeader]

\* a header candidate at the parse offset
parse_header(d) ==
    LET hdr == SubSeq(d.buf, d.offset + 1, d.offset + SizeofHeader)
        d1 == [d EXCEPT !.hdr = hdr]
    IN  IF ~header_magic_ok(hdr) THEN [d1 EXCEPT !.offset = @ + 1]
        ELSE IF header_count(hdr) > MaxFrameCount THEN [d1 EXCEPT !.offset = @ + 1]
        ELSE [d1 EXCEPT !.have_header = TRUE,
                        !.events_remaining = header_count(hdr),
                        !.frame_event_count = 0,
                        !.current_frame_bytes = SizeofHeader,
                        !.offset = @ + SizeofHeader]

\* mutation: the first event of a frame is queued with delta 0
parse_event_first_delta_zeroed(d) ==
    LET event == decode_event(d.buf, d.offset)
        d1 == [d EXCEPT !.offset = @ + SizeofEvent,
                        !.events_remaining = IF @ > 0 THEN @ - 1 ELSE @,
                        !.frame_event_count = @ + 1,
                        !.current_frame_bytes = @ + SizeofEvent]
        d2 == siddler_audio_queue_event(d1, event.chip, event.addr, event.value,
                  IF d.frame_event_count = 0 THEN 0 ELSE event.delta)
        d3 == IF d.audio_ready THEN siddler_audio_task(d2) ELSE d2
    IN  IF d3.events_remaining = 0
        THEN [complete_sid_frame(d3, header_frame(d3.hdr)) EXCEPT
                 !.have_header = FALSE]
        ELSE d3

\* an event record at the parse offset
parse_event(d) ==
    LET event == decode_event(d.buf, d.offset)
        d1 == [d EXCEPT !.offset = @ + SizeofEvent,
                        !.events_remaining = IF @ > 0 THEN @ - 1 ELSE @,
                        !.frame_event_count = @ + 1,
                        !.current_frame_bytes = @ + SizeofEvent]
        d2 == siddler_audio_queue_event(d1, event.chip, event.addr, event.value,
                                        event.delta)
        d3 == IF d.audio_ready THEN siddler_audio_task(d2) ELSE d2
    IN  IF d3.events_remaining = 0
        THEN [complete_sid_frame(d3, header_frame(d3.hdr)) EXCEPT
                 !.have_header = FALSE]
        ELSE d3

\* the while (offset < serial_buffer_len) loop of process_serial_stream
RECURSIVE parse_loop(_)
parse_loop(d) ==
    IF d.offset >= Len(d.buf) THEN d
    ELSE
      LET remaining == Len(d.buf) - d.offset
      IN  IF ~d.have_header
          THEN IF remaining < SizeofHeader THEN d
               ELSE parse_loop(parse_header(d))
          ELSE IF d.events_remaining = 0
          THEN parse_loop([complete_sid_frame(d, header_frame(d.hdr)) EXCEPT
                              !.have_header = FALSE])
          ELSE IF remaining < SizeofEvent THEN d
          ELSE parse_loop(parse_event(d))

\* mutation: a full buffer is not halved before the next byte is stored
RECURSIVE read_loop_no_discard(_)
read_loop_no_discard(d) ==
    IF d.rx = <<>> THEN d
    ELSE read_loop_no_discard(
            [d EXCEPT !.in_bounds = @ /\ Len(d.buf) < SERIAL_BUFFER_SIZE,
                      !.buf = Append(@, Head(d.rx)),
                      !.rx = Tail(@)])

\* the read loop: every byte of the CDC FIFO goes to serial_buffer, the
\* oldest half of a full buffer is discarded first; the byte is stored at
\* index serial_buffer_len, which in_bounds compares with the array's size
RECURSIVE read_loop(_)
read_loop(d) ==
    IF d.rx = <<>> THEN d
    ELSE
      LET drop == SERIAL_BUFFER_SIZE \div 2
          d1 == IF Len(d.buf) = SERIAL_BUFFER_SIZE
                THEN [d EXCEPT !.buf = SubSeq(@, drop + 1, SERIAL_BUFFER_SIZE),
                               !.base = @ + drop,
                               !.discards = @ + 1]
                ELSE d
      IN  read_loop([d1 EXCEPT !.in_bounds = @ /\ Len(d1.buf) < SERIAL_BUFFER_SIZE,
                               !.buf = Append(@, Head(d.rx)),
                               !.rx = Tail(@)])

\* mutation: the buffer is emptied after parsing, bytes of a partial header
\* or record included
process_serial_stream_drop_leftover(d0, mounted) ==
    LET d == [d0 EXCEPT !.online = mounted]
    IN  IF ~mounted
        THEN LET r == [d EXCEPT !.base = @ + Len(d.buf),
                                !.buf = <<>>,
                                !.have_header = FALSE,
                                !.events_remaining = 0,
                                !.frame_event_count = 0]
             IN  IF d.audio_ready THEN siddler_audio_reset_state(r) ELSE r
        ELSE LET r1 == parse_loop([read_loop(d) EXCEPT !.offset = 0])
                 r2 == [r1 EXCEPT !.buf = <<>>,
                                  !.base = @ + Len(r1.buf)]
             IN  IF d.audio_ready THEN siddler_audio_task(r2) ELSE r2

\* mutation: the unmounted branch clears the parser and leaves the engine alone
process_serial_stream_keep_queue(d0, mounted) ==
    LET d == [d0 EXCEPT !.online = mounted]
    IN  IF ~mounted
        THEN [d EXCEPT !.base = @ + Len(d.buf),
                       !.buf = <<>>,
                       !.have_header = FALSE,
                       !.events_remaining = 0,
                       !.frame_event_count = 0]
        ELSE LET r1 == parse_loop([read_loop(d) EXCEPT !.offset = 0])
                 r2 == [r1 EXCEPT !.buf = SubSeq(@, r1.offset + 1, Len(@)),
                                  !.base = @ + r1.offset]
             IN  IF d.audio_ready THEN siddler_audio_task(r2) ELSE r2

process_serial_stream(d0, mounted) ==
    LET d == [d0 EXCEPT !.online = mounted]
    IN  IF ~mounted
        THEN LET r == [d EXCEPT !.base = @ + Len(d.buf),
                                !.buf = <<>>,
                                !.have_header = FALSE,
                                !.events_remaining = 0,
                                !.frame_event_count = 0]
             IN  IF d.audio_ready THEN siddler_audio_reset_state(r) ELSE r
        ELSE LET r1 == parse_loop([read_loop(d) EXCEPT !.offset = 0])
                 r2 == [r1 EXCEPT !.in_bounds = @ /\ r1.offset <= Len(r1.buf),
                                  !.buf = SubSeq(@, r1.offset + 1, Len(@)),
                                  !.base = @ + r1.offset]
             IN  IF d.audio_ready THEN siddler_audio_task(r2) ELSE r2

\* the record of the current state, at the start of an operation
Dev == [eng |-> Eng, enabled |-> siddler_audio_enabled, pool_free |-> pool_free,
        audio_ready |-> audio_ready, online |-> cdc_online, rx |-> cdc_rx,
        buf |-> serial_buffer, offset |-> 0, have_header |-> have_header,
        hdr |-> current_header, events_remaining |-> events_remaining,
        frame_event_count |-> frame_event_count,
        current_frame_bytes |-> current_frame_bytes, stats |-> sid_stats,
        base |-> buf_base, discards |-> discards,
        in_bounds |-> stored_in_bounds, delivered |-> delivered,
        completed |-> completed]

\* store the record's fields back into the variables
CommitDev(d) ==
    /\ Commit(d.eng)
    /\ siddler_audio_enabled' = d.enabled
    /\ pool_free' = d.pool_free
    /\ audio_ready' = d.audio_ready
    /\ cdc_online' = d.online
    /\ cdc_rx' = d.rx
    /\ serial_buffer' = d.buf
    /\ have_header' = d.have_header
    /\ current_header' = d.hdr
    /\ events_remaining' = d.events_remaining
    /\ frame_event_count' = d.frame_event_count
    /\ current_frame_bytes' = d.current_frame_bytes
    /\ sid_stats' = d.stats
    /\ buf_base' = d.base
    /\ discards' = d.discards
    /\ stored_in_bounds' = d.in_bounds
    /\ delivered' = d.delivered
    /\ completed' = d.completed

\* ----------------------------------------------------------------- the host
\* What the host writes in a session: frames in the device's layout
\* (sid_header_t, sid_event_t) and stray bytes between them.
EvA == [chip |-> 2, addr |-> 37, value |-> 119, delta |-> 16777218]
EvB == [chip |-> 1, addr |-> 5, value |-> 64, delta |-> 0]

Items == {[kind |-> "noise", events |-> <<>>],
          [kind |-> "frame", events |-> <<EvA, EvB>>]}

Streams == UNION {[1 .. n -> Items] : n \in 1 .. MaxItems}

EncodeEvent(ev) == <<ev.chip, ev.addr, ev.value, 0>> \o U32Bytes(ev.delta)

RECURSIVE EncodeEvents(_)
EncodeEvents(evs) ==
    IF evs = <<>> THEN <<>> ELSE EncodeEvent(Head(evs)) \o EncodeEvents(Tail(evs))

\* the bytes of the i-th item; a frame carries its position as frame index
EncodeItem(item, i) ==
    IF item.kind = "noise" THEN <<170>>
    ELSE IF item.kind = "raw" THEN item.raw
    ELSE U32Bytes(SID_MAGIC) \o U32Bytes(Len(item.events)) \o U32Bytes(i)
            \o EncodeEvents(item.events)

RECURSIVE EncodeFrom(_, _)
EncodeFrom(s, i) ==
    IF i > Len(s) THEN <<>> ELSE EncodeItem(s[i], i) \o EncodeFrom(s, i + 1)

Wire(s) == EncodeFrom(s, 1)

\* ------------------------------------------------- the device's operations
InitDeviceWith(streams) ==
    \E ok \in BOOLEAN, s \in streams, mounted \in BOOLEAN :
       LET d0 == [eng |-> FreshEngine(SIDDLER_AUDIO_SAMPLE_RATE),
                  enabled |-> FALSE, pool_free |-> PoolBuffers]
           d  == IF ok THEN siddler_audio_init(d0) ELSE d0
       IN  /\ InitEngine(d.eng)
           /\ siddler_audio_enabled = d.enabled
           /\ pool_free = d.pool_free
           /\ audio_ready = ok
           /\ tud_mounted = mounted
           /\ tud_suspended = FALSE
           /\ cdc_online = FALSE
           /\ cdc_suspended = FALSE
           /\ cdc_rx = <<>>
           /\ stream = s
           /\ usb_wire = Wire(s)
           /\ cdc_tx = <<>>
           /\ serial_buffer = <<>>
           /\ have_header = FALSE
           /\ current_header = BlankHeader
           /\ events_remaining = 0
           /\ frame_event_count = 0
           /\ current_frame_bytes = 0
           /\ sid_stats = BlankStats
           /\ main_pc = "process"
           /\ buf_base = 0
           /\ discards = 0
           /\ stored_in_bounds = TRUE
           /\ delivered = <<>>
           /\ completed = <<>>
           /\ ScreenIdle

InitDevice == InitDeviceWith(Streams)

\* the host is enumerated
HostAttach ==
    /\ ~tud_mounted
    /\ tud_mounted' = TRUE
    /\ UNCHANGED <<engineVars, engineGhost, audioVars, parserVars, asideVars, cdc_rx,
                   usb_wire, cdc_tx, stream, tud_suspended>>

\* n bytes written by the host arrive in the CDC receive FIFO
UsbReceive(n) ==
    /\ tud_mounted
    /\ ~tud_suspended
    /\ n >= 1
    /\ n <= Len(usb_wire)
    /\ Len(cdc_rx) + n <= CFG_TUD_CDC_RX_BUFSIZE
    /\ cdc_rx' = cdc_rx \o SubSeq(usb_wire, 1, n)
    /\ usb_wire' = SubSeq(usb_wire, n + 1, Len(usb_wire))
    /\ UNCHANGED <<engineVars, engineGhost, audioVars, parserVars, asideVars, tud_mounted,
                   tud_suspended, cdc_tx, stream>>

\* main's loop: process_serial_stream()
ProcessSerialStream ==
    /\ main_pc = "process"
    /\ CommitDev(process_serial_stream(Dev, tud_mounted))
    /\ cdc_suspended' = tud_suspended
    /\ main_pc' = "task"
    /\ UNCHANGED <<tud_mounted, tud_suspended, usb_wire, cdc_tx, stream, asideVars>>

\* main's loop: if (audio_ready) siddler_audio_task()
AudioTask ==
    /\ main_pc = "task"
    /\ CommitDev(IF audio_ready THEN siddler_audio_task(Dev) ELSE Dev)
    /\ main_pc' = "process"
    /\ UNCHANGED <<tud_mounted, tud_suspended, cdc_suspended, usb_wire, cdc_tx,
                   stream, asideVars>>

\* the I2S consumer has played a buffer and returns it to the free list
I2SPlay ==
    /\ siddler_audio_enabled
    /\ pool_free < PoolBuffers
    /\ pool_free' = pool_free + 1
    /\ UNCHANGED <<engineVars, engineGhost, siddler_audio_enabled, audio_ready,
                   usbVars, parserVars, asideVars>>

NextDevice ==
    \/ HostAttach
    \/ \E n \in 1 .. CFG_TUD_CDC_RX_BUFSIZE : UsbReceive(n)
    \/ ProcessSerialStream
    \/ AudioTask
    \/ I2SPlay

SpecDevice == InitDevice /\ [][NextDevice]_vars

\* the host goes away: tud_mounted() turns false, nothing more arrives and
\* the bytes still in flight are lost
HostDetach ==
    /\ tud_mounted
    /\ tud_mounted' = FALSE
    /\ usb_wire' = <<>>
    /\ cdc_rx' = <<>>
    /\ UNCHANGED <<engineVars, engineGhost, audioVars, parserVars, asideVars, cdc_tx, stream,
                   tud_suspended>>

NextSession ==
    \/ NextDevice
    \/ HostDetach

SpecSession == InitDevice /\ [][NextSession]_vars

\* the bus is suspended by the host, and resumed: tud_suspended() changes,
\* the device stays mounted and no byte arrives while the bus is suspended
HostSuspend ==
    /\ tud_mounted
    /\ ~tud_suspended
    /\ tud_suspended' = TRUE
    /\ UNCHANGED <<engineVars, engineGhost, audioVars, parserVars, asideVars, tud_mounted,
                   cdc_rx, usb_wire, cdc_tx, stream>>

HostResume ==
    /\ tud_suspended
    /\ tud_suspended' = FALSE
    /\ UNCHANGED <<engineVars, engineGhost, audioVars, parserVars, asideVars, tud_mounted,
                   cdc_rx, usb_wire, cdc_tx, stream>>

NextSuspend ==
    \/ NextDevice
    \/ HostSuspend
    \/ HostResume

SpecSuspend == InitDevice /\ [][NextSuspend]_vars

\* ------------------------------------------------------ sessions on the wire
\* Sessions whose bytes are not all frames in the device's layout.
FrameB == [kind |-> "frame", events |-> <<EvB>>]
FrameAB == [kind |-> "frame", events |-> <<EvA, EvB>>]
Raw(bytes) == [kind |-> "raw", events |-> <<>>, raw |-> bytes]

\* bytes injected between two frames: a run longer than the CDC FIFO, a
\* part of the magic, the magic, and the magic followed by a small count
ResyncNoise ==
    {[i \in 1 .. (CFG_TUD_CDC_RX_BUFSIZE + 1) |-> 170],
     SubSeq(U32Bytes(SID_MAGIC), 1, 3),
     U32Bytes(SID_MAGIC),
     U32Bytes(SID_MAGIC) \o U32Bytes(2)}

ResyncStreams == {<<FrameB, Raw(n), FrameAB>> : n \in ResyncNoise}

\* a header alone: the magic, a count and the frame index 9
HeaderOnly(count) ==
    Raw(U32Bytes(SID_MAGIC) \o U32Bytes(count) \o U32Bytes(9))

\* counts above the limit, before a frame and at the end of the session
OversizeCounts == {MaxFrameCount + 1, 65535}
RejectStreams ==
    {<<HeaderOnly(c), FrameAB>> : c \in OversizeCounts}
        \cup {<<FrameB, HeaderOnly(c)>> : c \in OversizeCounts}

\* the largest and the smallest count, at the end of the session
AcceptCounts == {0, MaxFrameCount}
AcceptStreams == {<<FrameB, HeaderOnly(c)>> : c \in AcceptCounts}

\* a frame without events, before a frame and at the end of the session
Frame0 == [kind |-> "frame", events |-> <<>>]
ZeroStreams == {<<Frame0, FrameB>>, <<FrameB, Frame0>>}

\* a control frame as the host's send_sid_command builds it, in the device's
\* header layout: count 0xFFFF, frame 0, then opcode and three parameters
SID_CMD_FRAME_COUNT == 65535
SID_CMD_CYCLE_MODE == 1
ControlFrame(opcode) ==
    Raw(U32Bytes(SID_MAGIC) \o U32Bytes(SID_CMD_FRAME_COUNT) \o U32Bytes(0)
        \o <<opcode, 0, 0, 0>>)
ControlStreams == {<<FrameB, ControlFrame(SID_CMD_CYCLE_MODE)>>,
                   <<ControlFrame(SID_CMD_CYCLE_MODE), FrameAB>>,
                   <<ControlFrame(SID_CMD_CYCLE_MODE),
                     ControlFrame(SID_CMD_CYCLE_MODE),
                     ControlFrame(SID_CMD_CYCLE_MODE)>>}

\* the host tool's packed layout: header magic:u32, count:u16, frame:u32 and
\* event records addr:u8, value:u8, delta:u32
U16Bytes(n) == <<n % 256, (n \div 256) % 256>>

CompactEvent(ev) == <<ev.addr, ev.value>> \o U32Bytes(ev.delta)

RECURSIVE CompactEvents(_)
CompactEvents(evs) ==
    IF evs = <<>> THEN <<>> ELSE CompactEvent(Head(evs)) \o CompactEvents(Tail(evs))

CompactFrame(evs, frame) ==
    Raw(U32Bytes(SID_MAGIC) \o U16Bytes(Len(evs)) \o U32Bytes(frame)
        \o CompactEvents(evs))

CompactEventLists == {<<EvB>>, <<EvA, EvB>>}
CompactSession(evs) == <<CompactFrame(evs, 1)>>
CompactStreams == {CompactSession(evs) : evs \in CompactEventLists}

WireStreams == ResyncStreams \cup RejectStreams \cup AcceptStreams \cup ZeroStreams
                  \cup ControlStreams \cup CompactStreams

InitWire == InitDeviceWith(WireStreams)

SpecWire == InitWire /\ [][NextDevice]_vars

\* ------------------------------------------------------ audio shut down
\* A session during which siddler_audio_shutdown is called: main keeps
\* audio_ready and goes on calling the audio interface.
AudioShutdown ==
    /\ siddler_audio_enabled
    /\ CommitDev(siddler_audio_shutdown(Dev))
    /\ UNCHANGED <<cdc_suspended, main_pc, tud_mounted, tud_suspended, usb_wire,
                   cdc_tx, stream, asideVars>>

NextMuted ==
    \/ NextSession
    \/ AudioShutdown

MutedStreams == {<<FrameAB, FrameB>>}

InitMuted == InitDeviceWith(MutedStreams)

SpecMuted == InitMuted /\ [][NextMuted]_vars

\* ------------------------------------------------ a saturated parser buffer
\* A build whose CDC receive FIFO holds more than serial_buffer has room
\* for: one call of process_serial_stream then reads more bytes than fit,
\* and the read loop discards the oldest half of the buffer.
OverflowStreams == {<<FrameAB, FrameAB>>}

UsbReceiveLarge(n) ==
    /\ tud_mounted
    /\ ~tud_suspended
    /\ n >= 1
    /\ n <= Len(usb_wire)
    /\ Len(cdc_rx) + n <= LARGE_CDC_RX_BUFSIZE
    /\ cdc_rx' = cdc_rx \o SubSeq(usb_wire, 1, n)
    /\ usb_wire' = SubSeq(usb_wire, n + 1, Len(usb_wire))
    /\ UNCHANGED <<engineVars, engineGhost, audioVars, parserVars, asideVars, tud_mounted,
                   tud_suspended, cdc_tx, stream>>

NextOverflow ==
    \/ HostAttach
    \/ \E n \in 1 .. LARGE_CDC_RX_BUFSIZE : UsbReceiveLarge(n)
    \/ ProcessSerialStream
    \/ AudioTask
    \/ I2SPlay

InitOverflow == InitDeviceWith(OverflowStreams)

SpecOverflow == InitOverflow /\ [][NextOverflow]_vars

\* ------------------------------------------------------ the engine reset
\* The engine with audio running, driven through its whole interface: timed
\* events, renders, notes, model changes, and siddler_audio_reset_state.
Notes == {57, 69}
Velocities == {100}
ResetDeltas == {2}

\* sid_engine_queue_event, for as many events as a reset is followed over
QueueTimedEvent(chip_mask, addr, value, delta_cycles) ==
    /\ pushed < MaxResetPush
    /\ QueueEvent(chip_mask, addr, value, delta_cycles)

NoteOn(midi_note, velocity) ==
    /\ g_voice_generation < MaxNoteOn
    /\ Commit(sid_engine_note_on(Eng, midi_note, velocity))
    /\ UNCHANGED <<audioVars, usbVars, parserVars, asideVars>>

NoteOff(midi_note) ==
    /\ Commit(sid_engine_note_off(Eng, midi_note))
    /\ UNCHANGED <<audioVars, usbVars, parserVars, asideVars>>

SetChannelModels(left_6581, right_6581) ==
    /\ Commit(sid_engine_set_channel_models(Eng, left_6581, right_6581))
    /\ UNCHANGED <<audioVars, usbVars, parserVars, asideVars>>

AudioResetState ==
    /\ CommitDev(siddler_audio_reset_state(Dev))
    /\ UNCHANGED <<cdc_suspended, main_pc, tud_mounted, tud_suspended, usb_wire,
                   cdc_tx, stream, asideVars>>

NextReset ==
    \/ \E m \in Masks, a \in Addrs, v \in Values, d \in ResetDeltas :
          QueueTimedEvent(m, a, v, d)
    \/ RenderFrame
    \/ \E n \in Notes, v \in Velocities : NoteOn(n, v)
    \/ \E n \in Notes : NoteOff(n)
    \/ \E l, r \in BOOLEAN : SetChannelModels(l, r)
    \/ AudioResetState

InitReset ==
    /\ InitEngine(sid_engine_set_channel_models(
                     FreshEngine(SIDDLER_AUDIO_SAMPLE_RATE), TRUE, TRUE))
    /\ InitIdle

SpecReset == InitReset /\ [][NextReset]_vars

\* ------------------------------------------------------ the note slots
\* The note interface on its own: note_on and note_off over more notes than
\* there are slots, and sid_engine_init, which clears the slots.
VoiceNotes == {45, 57, 69, 81}

NoteOnCall(midi_note, velocity) ==
    /\ g_voice_generation < MaxVoiceOn
    /\ Commit(sid_engine_note_on(Eng, midi_note, velocity))
    /\ UNCHANGED <<audioVars, usbVars, parserVars, asideVars>>

EngineInit ==
    /\ Commit(sid_engine_init(Eng, SIDDLER_AUDIO_SAMPLE_RATE))
    /\ UNCHANGED <<audioVars, usbVars, parserVars, asideVars>>

NextVoices ==
    \/ \E n \in VoiceNotes, v \in Velocities : NoteOnCall(n, v)
    \/ \E n \in VoiceNotes : NoteOff(n)
    \/ EngineInit

SpecVoices == InitReset /\ [][NextVoices]_vars

\* ------------------------------------------------------ the status screen
\* Core 0 writes a status row with set_status_line / set_screen_line, core 1
\* reads it in the scanline render.  One row of TEXT_COLS cells is followed;
\* a writer call with content c fills the row with c.  A memcpy that runs
\* under sid_state_lock is one step; the copies of the cache, which one core
\* writes under the lock and the other reads without it, go cell by cell.
Contents == 1 .. MaxContent
Firmwares == {"siddler_pico", "part_007"}

\* set_status_line (siddler_pico.c) and set_screen_line (part_007) up to the
\* copy into the row: critical_section_enter_blocking, memset, memcpy
WriterEnter(c) ==
    /\ writer_pc = "idle"
    /\ sid_state_lock = "free"
    /\ sid_state_lock' = "core0"
    /\ screen_lines' = [col \in 1 .. TEXT_COLS |-> c]
    /\ writer_pc' = IF firmware = "part_007" THEN "cache" ELSE "exit"
    /\ writer_col' = 1
    /\ UNCHANGED <<deviceVars, firmware, screen_line_cache, screen_line_cache_valid,
                   render_pc, render_col, row_chars, row_valid>>

\* set_screen_line: memcpy(screen_line_cache[screen][row], ...), one cell
WriterCache ==
    /\ writer_pc = "cache"
    /\ screen_line_cache' = [screen_line_cache EXCEPT
                                ![writer_col] = screen_lines[writer_col]]
    /\ writer_col' = writer_col + 1
    /\ writer_pc' = IF writer_col = TEXT_COLS THEN "valid" ELSE "cache"
    /\ UNCHANGED <<deviceVars, firmware, sid_state_lock, screen_lines,
                   screen_line_cache_valid, render_pc, render_col, row_chars,
                   row_valid>>

\* set_screen_line: screen_line_cache_valid[screen][row] = true
WriterValid ==
    /\ writer_pc = "valid"
    /\ screen_line_cache_valid' = TRUE
    /\ writer_pc' = "exit"
    /\ UNCHANGED <<deviceVars, firmware, sid_state_lock, screen_lines, screen_line_cache,
                   writer_col, render_pc, render_col, row_chars, row_valid>>

\* critical_section_exit
WriterExit ==
    /\ writer_pc = "exit"
    /\ sid_state_lock' = "free"
    /\ writer_pc' = "idle"
    /\ writer_col' = 0
    /\ UNCHANGED <<deviceVars, firmware, screen_lines, screen_line_cache,
                   screen_line_cache_valid, render_pc, render_col, row_chars,
                   row_valid>>

\* a scanline of the row is due: core 1 enters the render function
RenderStart ==
    /\ render_pc = "idle"
    /\ render_pc' = IF firmware = "part_007" THEN "try" ELSE "enter"
    /\ row_valid' = FALSE
    /\ row_chars' = BlankRow
    /\ render_col' = 0
    /\ UNCHANGED <<deviceVars, firmware, sid_state_lock, screen_lines, screen_line_cache,
                   screen_line_cache_valid, writer_pc, writer_col>>

\* render_scanline of siddler_pico.c: critical_section_enter_blocking, then
\* the row is copied under the lock
RenderEnterBlocking ==
    /\ render_pc = "enter"
    /\ sid_state_lock = "free"
    /\ sid_state_lock' = "core1"
    /\ row_chars' = screen_lines
    /\ row_valid' = TRUE
    /\ render_pc' = "exit"
    /\ UNCHANGED <<deviceVars, firmware, screen_lines, screen_line_cache,
                   screen_line_cache_valid, writer_pc, writer_col, render_col>>

\* render_text_screen_scanline of part_007: sid_state_try_enter; with the
\* lock the row is copied and the cache refreshed, without it the cached
\* row is used if it is valid
RenderTryEnter ==
    /\ render_pc = "try"
    /\ IF sid_state_lock = "free"
       THEN /\ sid_state_lock' = "core1"
            /\ row_chars' = screen_lines
            /\ screen_line_cache' = screen_lines
            /\ screen_line_cache_valid' = TRUE
            /\ row_valid' = TRUE
            /\ render_pc' = "exit"
            /\ render_col' = 0
       ELSE /\ render_pc' = IF screen_line_cache_valid THEN "cached" ELSE "draw"
            /\ render_col' = 1
            /\ UNCHANGED <<sid_state_lock, row_chars, screen_line_cache,
                           screen_line_cache_valid, row_valid>>
    /\ UNCHANGED <<deviceVars, firmware, screen_lines, writer_pc, writer_col>>

\* memcpy(row_chars, active_cache[text_row], TEXT_COLS), one cell
RenderCached ==
    /\ render_pc = "cached"
    /\ row_chars' = [row_chars EXCEPT ![render_col] = screen_line_cache[render_col]]
    /\ render_col' = render_col + 1
    /\ row_valid' = (render_col = TEXT_COLS)
    /\ render_pc' = IF render_col = TEXT_COLS THEN "draw" ELSE "cached"
    /\ UNCHANGED <<deviceVars, firmware, sid_state_lock, screen_lines, screen_line_cache,
                   screen_line_cache_valid, writer_pc, writer_col>>

\* critical_section_exit / sid_state_try_exit
RenderExit ==
    /\ render_pc = "exit"
    /\ sid_state_lock' = "free"
    /\ render_pc' = "draw"
    /\ UNCHANGED <<deviceVars, firmware, screen_lines, screen_line_cache,
                   screen_line_cache_valid, writer_pc, writer_col, render_col,
                   row_chars, row_valid>>

\* the glyphs of row_chars are drawn into the scanline buffer
RenderDraw ==
    /\ render_pc = "draw"
    /\ render_pc' = "idle"
    /\ UNCHANGED <<deviceVars, firmware, sid_state_lock, screen_lines, screen_line_cache,
                   screen_line_cache_valid, writer_pc, writer_col, render_col,
                   row_chars, row_valid>>

NextRender ==
    \/ RenderStart
    \/ RenderEnterBlocking
    \/ RenderTryEnter
    \/ RenderCached
    \/ RenderExit
    \/ RenderDraw

NextWriter ==
    \/ \E c \in Contents : WriterEnter(c)
    \/ WriterCache
    \/ WriterValid
    \/ WriterExit

NextScreen ==
    \/ NextWriter
    \/ NextRender

InitScreen ==
    /\ InitEngine(FreshEngine(SIDDLER_AUDIO_SAMPLE_RATE))
    /\ IdleDevice
    /\ firmware \in Firmwares
    /\ sid_state_lock = "free"
    /\ screen_lines = BlankRow
    /\ screen_line_cache = BlankRow
    /\ screen_line_cache_valid = FALSE
    /\ writer_pc = "idle"
    /\ writer_col = 0
    /\ render_pc = "idle"
    /\ render_col = 0
    /\ row_chars = BlankRow
    /\ row_valid = FALSE
    /\ samples = <<0, 0>>
    /\ pcm = <<0, 0>>
    /\ HostIdle

SpecScreen == InitScreen /\ [][NextScreen]_vars

\* ------------------------------------------------------ the output stage
\* The last lines of sid_engine_render_frame: the outputs of the two cells
\* are amplified in float, converted back to int32_t and clamped.
INT16_MAX == 32767
INT16_MIN == -32768
kOutputGainNum == 3
kOutputGainDen == 2

\* the 16-bit outputs of a cell that are followed: the ends of the range,
\* zero, and the values around both saturation points
OutputSamples == {INT16_MIN, -21847, -21846, -21845, -21844, -3, -1, 0, 1, 3,
                  21844, 21845, 21846, INT16_MAX}

\* static_cast<int32_t>(sample * kOutputGain): the product is exact in
\* float for 16-bit samples, the conversion truncates towards zero
amplify(sample) ==
    IF sample >= 0 THEN (sample * kOutputGainNum) \div kOutputGainDen
    ELSE -(((-sample) * kOutputGainNum) \div kOutputGainDen)

\* mutation: the lower bound is not tested, the conversion to int16_t wraps
clamp16_upper_only(value) ==
    IF value > INT16_MAX THEN INT16_MAX
    ELSE IF value < INT16_MIN THEN value + 65536
    ELSE value

clamp16(value) ==
    IF value > INT16_MAX THEN INT16_MAX
    ELSE IF value < INT16_MIN THEN INT16_MIN
    ELSE value

\* sid_engine_render_frame's output for the cell outputs s0 and s1
MixOutput(s0, s1) ==
    /\ samples' = <<s0, s1>>
    /\ pcm' = <<clamp16(amplify(s0)), clamp16(amplify(s1))>>
    /\ UNCHANGED <<engineVars, engineGhost, audioVars, usbVars, parserVars,
                   screenVars, hostVars>>

NextOutput == \E s0, s1 \in OutputSamples : MixOutput(s0, s1)

InitOutput ==
    /\ InitEngine(FreshEngine(SIDDLER_AUDIO_SAMPLE_RATE))
    /\ IdleDevice
    /\ ScreenIdle

SpecOutput == InitOutput /\ [][NextOutput]_vars

\* ------------------------------------------------------- the forwarder
\* sidtap2serial reads a frame from the FIFO, removes the events of muted
\* voices and of the switched-off filter, spreads the frame's cycles and
\* writes the header it read followed by the events that are left.
PAL_CYCLES_PER_FRAME == 2
PAL_FRAME_TOLERANCE == 1
PAL_MAX_CYCLE_CARRY == PAL_CYCLES_PER_FRAME * 3
SID_FILTER_ADDR_MIN == 21
SID_FILTER_ADDR_MAX == 24
SID_CMD_SET_VOICE_MASK == 2
SID_CMD_SET_FILTER == 3

\* a register of each voice that is followed, a filter register, and a
\* register of the second chip's first voice
HostAddrs == {0, 7, 21, 37}
HostDeltas == {0, 3}
HostEvents == [addr : HostAddrs, value : {15}, delta : HostDeltas]
HostFrames == UNION {[1 .. n -> HostEvents] : n \in 0 .. MaxHostEvents}

clamp_u32(value, max) == IF value > max THEN max ELSE value

sid_voice_index_from_addr(addr) ==
    IF addr <= 6 THEN 0
    ELSE IF addr >= 7 /\ addr <= 13 THEN 1
    ELSE IF addr >= 14 /\ addr <= 20 THEN 2
    ELSE -1

sid_filter_register(addr) ==
    addr >= SID_FILTER_ADDR_MIN /\ addr <= SID_FILTER_ADDR_MAX

should_drop_sid_event(addr, mask, filter) ==
    LET reg == addr % 32
        voice == sid_voice_index_from_addr(reg)
    IN  \/ voice >= 0 /\ (mask \div (2 ^ voice)) % 2 = 1
        \/ ~filter /\ sid_filter_register(reg)

\* the loop of apply_voice_filtering from event i on
RECURSIVE filter_from(_, _, _, _, _)
filter_from(events, i, pending, mask, filter) ==
    IF i > Len(events) THEN <<>>
    ELSE LET adjusted_delta == clamp_u32(events[i].delta + pending, UINT32_MAX)
         IN  IF should_drop_sid_event(events[i].addr, mask, filter)
             THEN filter_from(events, i + 1, adjusted_delta, mask, filter)
             ELSE <<[events[i] EXCEPT !.delta = adjusted_delta]>>
                      \o filter_from(events, i + 1, 0, mask, filter)

\* the events kept, in place at the front of the array; their number is
\* the value returned
apply_voice_filtering(events, mask, filter) ==
    IF events = <<>> THEN <<>>
    ELSE IF mask = 0 /\ filter THEN events
    ELSE filter_from(events, 1, 0, mask, filter)

RECURSIVE total_delta(_)
total_delta(events) ==
    IF events = <<>> THEN 0 ELSE Head(events).delta + total_delta(Tail(events))

\* the carry of the previous frame added to the first event
add_carry(events, carry) ==
    IF events /= <<>> /\ carry > 0
    THEN LET first_delta == events[1].delta + carry
         IN  IF first_delta > UINT32_MAX
             THEN [events |-> [events EXCEPT ![1].delta = UINT32_MAX],
                   carry |-> clamp_u32(first_delta - UINT32_MAX, PAL_MAX_CYCLE_CARRY)]
             ELSE [events |-> [events EXCEPT ![1].delta = first_delta], carry |-> 0]
    ELSE [events |-> events, carry |-> 0]

\* a frame longer than a PAL frame gives the excess of its last event to
\* the next frame
trim_frame(events, carry_in, carry) ==
    LET count == Len(events)
        total_cycles == carry_in + total_delta(events)
        max_cycles == PAL_CYCLES_PER_FRAME + PAL_FRAME_TOLERANCE
    IN  IF count > 0 /\ total_cycles > max_cycles
        THEN LET overflow == total_cycles - max_cycles
                 last == events[count].delta
                 wanted == clamp_u32(overflow, UINT32_MAX)
                 reduction == IF wanted >= last
                              THEN (IF last > 0 THEN last - 1 ELSE 0)
                              ELSE wanted
             IN  IF reduction > 0
                 THEN [events |-> [events EXCEPT ![count].delta = last - reduction],
                       total |-> total_cycles - reduction,
                       carry |-> (carry + reduction) % Word]
                 ELSE [events |-> events, total |-> total_cycles,
                       carry |-> IF carry < PAL_MAX_CYCLE_CARRY
                                 THEN (carry + wanted) % Word ELSE carry]
        ELSE [events |-> events, total |-> total_cycles, carry |-> carry]

\* the body of main's loop for a complete frame of hdr_count events: what
\* writev sends and the carry that is left
forward_frame(hdr_count, raw, mask, filter, carry0) ==
    LET kept == apply_voice_filtering(raw, mask, filter)
        carry == clamp_u32(carry0, PAL_MAX_CYCLE_CARRY)
        a == add_carry(kept, carry)
        t == trim_frame(a.events, carry, a.carry)
        deficit == IF t.total < PAL_CYCLES_PER_FRAME
                   THEN PAL_CYCLES_PER_FRAME - t.total ELSE 0
    IN  [written |-> [kind |-> "frame", count |-> hdr_count, events |-> t.events,
                      command |-> <<>>],
         carry |-> clamp_u32((t.carry + deficit) % Word, PAL_MAX_CYCLE_CARRY)]

send_sid_command(opcode, param0) ==
    [kind |-> "command", count |-> SID_CMD_FRAME_COUNT, events |-> <<>>,
     command |-> <<opcode, param0, 0, 0>>]

\* main reads a frame of Len(raw) events from the FIFO and forwards it
ForwardFrame(raw) ==
    LET f == forward_frame(Len(raw), raw, g_voice_mute_mask, g_filter_enabled,
                           g_cycle_carry)
    IN  /\ serial_written' = f.written
        /\ g_cycle_carry' = f.carry
        /\ UNCHANGED <<g_voice_mute_mask, g_filter_enabled, deviceMinusHost, screenVars>>

\* handle_local_input: the keys 1, 2 and 3
ToggleVoice(voice) ==
    LET bit == 2 ^ voice
        mask == IF (g_voice_mute_mask \div bit) % 2 = 1
                THEN g_voice_mute_mask - bit ELSE g_voice_mute_mask + bit
    IN  /\ g_voice_mute_mask' = mask
        /\ serial_written' = send_sid_command(SID_CMD_SET_VOICE_MASK, mask)
        /\ UNCHANGED <<g_filter_enabled, g_cycle_carry, deviceMinusHost, screenVars>>

\* handle_local_input: the key 0
UnmuteAll ==
    /\ g_voice_mute_mask' = 0
    /\ serial_written' = send_sid_command(SID_CMD_SET_VOICE_MASK, 0)
    /\ UNCHANGED <<g_filter_enabled, g_cycle_carry, deviceMinusHost, screenVars>>

\* handle_local_input: the key f
ToggleFilter ==
    /\ g_filter_enabled' = ~g_filter_enabled
    /\ serial_written' = send_sid_command(SID_CMD_SET_FILTER,
                                          IF g_filter_enabled THEN 0 ELSE 1)
    /\ UNCHANGED <<g_voice_mute_mask, g_cycle_carry, deviceMinusHost, screenVars>>

NextHost ==
    \/ \E raw \in HostFrames : ForwardFrame(raw)
    \/ \E voice \in Voices : ToggleVoice(voice)
    \/ UnmuteAll
    \/ ToggleFilter

InitHost ==
    /\ InitEngine(FreshEngine(SIDDLER_AUDIO_SAMPLE_RATE))
    /\ IdleDevice
    /\ ScreenIdle

SpecHost == InitHost /\ [][NextHost]_vars

\* ------------------------------------------------------------- observers
QueueEmpty == g_event_head = g_event_tail

RECURSIVE SumFrom(_)
SumFrom(i) ==
    IF i = g_event_tail THEN 0
    ELSE g_event_queue[i].delta + SumFrom(advance_index(i))

\* sum of the deltas held in the queue
QueueDeltaSum == SumFrom(g_event_head)

Entries == {applied[i] : i \in 1 .. Len(applied)}

\* an entry whose predecessor in push order was the event applied before it
Consecutive(en) == en.prev >= 1 /\ en.prev = en.id - 1

\* -------------------------------------------------------------- claims

\* C1: delta conservation under overflow.  After a run of queue_event calls
\* with no render_frame in between that has overflowed the queue, the sum of
\* the deltas held in the queue equals the exact sum of the deltas pushed.
C1_DeltaConservation ==
    (quiet /\ g_event_drop_count > 0) => QueueDeltaSum = pushedSum

\* C2: ordering.  Every event applied to the cells was pushed after the
\* event applied before it, within one operation and across operations.
C2_Ordering ==
    \A i \in 1 .. Len(applied) : applied[i].id > applied[i].prev

\* two events applied in order by one render_frame, after an overflow drop
C2_Witness ==
    /\ lastRender.valid
    /\ g_event_drop_count > 0
    /\ Len(applied) >= 2

C4_PendingEventsAdvance ==
    [][(~QueueEmpty /\ lastRender'.valid)
          => \/ g_event_head' # g_event_head
             \/ g_cycles_to_next_event' < g_cycles_to_next_event]_vars

\* C5 as stated: two consecutive events pushed with deltas (0, 0) are
\* applied with no clock call between them, for every interleaving of the
\* two pushes with the sample pump.
C5_ZeroDeltaAnyInterleaving ==
    \A en \in Entries :
       (Consecutive(en) /\ en.prevPdelta = 0 /\ en.pdelta = 0) => ~en.clocked

\* C5 amended: the same, when the second event is pushed while the first
\* is still pending in the queue.
C5_ZeroDeltaEagerness ==
    \A en \in Entries :
       (Consecutive(en) /\ en.prevPdelta = 0 /\ en.pdelta = 0 /\ en.chained)
          => ~en.clocked

\* a render applies both events of a (0, 0) pair behind a timed head
C5_Witness ==
    /\ lastRender.valid
    /\ Len(applied) >= 2
    /\ \E en \in Entries :
          /\ Consecutive(en)
          /\ en.prevPdelta = 0
          /\ en.pdelta = 0
          /\ en.chained
          /\ ~en.clocked

\* C6: an overflow drop keeps the schedule.  After a drop the cycles left
\* until the new head fires are the dropped head's remaining cycles plus
\* the new head's own delta (where that sum fits the 32-bit counter).
C6_DropKeepsSchedule ==
    (lastDrop.valid /\ lastDrop.resid + lastDrop.nextDelta < UINT32_MAX)
       => lastDrop.ctn = lastDrop.resid + lastDrop.nextDelta

\* C7: after every engine operation cycles_to_next is the sentinel exactly
\* when the queue is empty, and otherwise the head has delta > 0 and
\* 1 <= cycles_to_next <= head.delta.
C7_CyclesToNext ==
    /\ (g_cycles_to_next_event = UINT32_MAX) <=> QueueEmpty
    /\ ~QueueEmpty =>
          /\ g_event_queue[g_event_head].delta > 0
          /\ 1 <= g_cycles_to_next_event
          /\ g_cycles_to_next_event <= g_event_queue[g_event_head].delta

\* C8: forward progress.  Every render_frame clocks both cells by at least
\* one cycle; when cycles_per_sample < 1 it clocks exactly one cycle and the
\* residual stays in [0, 1).
C8_ForwardProgress ==
    /\ lastRender.valid => \A c \in Cells : lastRender.rclk[c] >= 1
    /\ kC64ClockHz < g_sample_rate_hz =>
          /\ lastRender.valid => \A c \in Cells : lastRender.rclk[c] = 1
          /\ 0 <= g_cycle_residual
          /\ g_cycle_residual < One

\* a render at a sample rate above the SID clock
C8_Witness ==
    /\ lastRender.valid
    /\ kC64ClockHz < g_sample_rate_hz
    /\ \A c \in Cells : lastRender.rclk[c] = 1

RECURSIVE StreamRecords(_, _, _)
StreamRecords(s, i, at) ==
    IF i > Len(s) THEN <<>>
    ELSE [k \in 1 .. Len(s[i].events) |->
             [last |-> at + SizeofHeader + k * SizeofEvent,
              args |-> [chip_mask |-> s[i].events[k].chip,
                        addr |-> s[i].events[k].addr % 32,
                        value |-> s[i].events[k].value,
                        delta_cycles |-> s[i].events[k].delta]]]
         \o StreamRecords(s, i + 1, at + Len(EncodeItem(s[i], i)))

\* the records wholly within the first n bytes of the session
RecordsWithin(n) ==
    LET rs == SelectSeq(StreamRecords(stream, 1, 0), LAMBDA r : r.last <= n)
    IN  [k \in 1 .. Len(rs) |-> rs[k].args]

\* bytes of the session the parser has read
BytesRead == buf_base + Len(serial_buffer)

AllRecords == RecordsWithin(Len(Wire(stream)))

IsPrefix(a, b) == Len(a) <= Len(b) /\ a = SubSeq(b, 1, Len(a))

\* the number of bytes of the session before its i-th item
ItemStart(s, i) == Len(Wire(SubSeq(s, 1, i - 1)))

\* the bytes at position p read as a header the parser accepts
HeaderCandidateAt(w, p) ==
    /\ p + SizeofHeader <= Len(w)
    /\ SubSeq(w, p + 1, p + 4) = U32Bytes(SID_MAGIC)
    /\ U32LE(w, p + 4) <= MaxFrameCount

\* some position within the i-th item reads as a header
SpuriousHeaderIn(s, i) ==
    \E p \in ItemStart(s, i) .. (ItemStart(s, i) + Len(EncodeItem(s[i], i)) - 1) :
        HeaderCandidateAt(Wire(s), p)

\* no injected bytes before the i-th item read as a header
NoSpuriousBefore(s, i) ==
    \A j \in 1 .. (i - 1) : s[j].kind = "frame" \/ ~SpuriousHeaderIn(s, j)

AllRead == BytesRead = Len(Wire(stream))

OnePiece ==
    parse_loop([Dev EXCEPT !.eng = FreshEngine(SIDDLER_AUDIO_SAMPLE_RATE),
                           !.audio_ready = FALSE,
                           !.buf = Wire(stream),
                           !.offset = 0,
                           !.have_header = FALSE,
                           !.hdr = BlankHeader,
                           !.events_remaining = 0,
                           !.frame_event_count = 0,
                           !.current_frame_bytes = 0,
                           !.stats = BlankStats,
                           !.delivered = <<>>,
                           !.completed = <<>>])

\* C13: partial reads are buffered and resumed.  However the session is
\* split over USB transfers and process_serial_stream calls, once all of it
\* has been read the queued events, the completed frames and the parser's
\* pending state are those of a single parse of the whole session; and a
\* frame whose header has been read but whose records have not all arrived
\* is the pending header and has not been completed.
C13_PartialReads ==
    /\ AllRead =>
          LET one == OnePiece
          IN  /\ delivered = one.delivered
              /\ completed = one.completed
              /\ have_header = one.have_header
              /\ events_remaining = one.events_remaining
              /\ sid_stats = one.stats
              /\ serial_buffer = SubSeq(one.buf, one.offset + 1, Len(one.buf))
    /\ \A i \in 1 .. Len(stream) :
          (/\ stream[i].kind = "frame"
           /\ NoSpuriousBefore(stream, i)
           /\ ItemStart(stream, i) + SizeofHeader <= BytesRead
           /\ BytesRead < ItemStart(stream, i + 1)) =>
              /\ have_header
              /\ header_frame(current_header) = i
              /\ events_remaining > 0
              /\ \A k \in 1 .. Len(completed) : completed[k].frame # i

\* the first record of a frame has been queued and a part of its second
\* record waits in the buffer
C13_Witness ==
    /\ siddler_audio_enabled
    /\ have_header
    /\ frame_event_count = 1
    /\ events_remaining = 1
    /\ Len(serial_buffer) \in 1 .. (SizeofEvent - 1)
    /\ Len(delivered) >= 1

\* the entries of the completion log for the frame with index i
CompletionsOf(i) == {k \in 1 .. Len(completed) : completed[k].frame = i}

\* C14: per-frame accounting.  In every state, each frame of the session
\* whose last byte has been read, a frame with count 0 included, has been
\* completed exactly once, with events = count and bytes = header size +
\* count x record size.
C14_FrameAccounting ==
    \A i \in 1 .. Len(stream) :
        (/\ stream[i].kind = "frame"
         /\ NoSpuriousBefore(stream, i)
         /\ ItemStart(stream, i + 1) <= BytesRead) =>
            /\ Cardinality(CompletionsOf(i)) = 1
            /\ \A k \in CompletionsOf(i) :
                  /\ completed[k].events = Len(stream[i].events)
                  /\ completed[k].bytes =
                        SizeofHeader + Len(stream[i].events) * SizeofEvent

\* the number of events the ring can hold
QueueCapacity == kEventQueueSize - 1

\* C15: flow control.  A process_serial_stream call that starts while the
\* event queue is full, and so at or above the high watermark, reads no
\* USB byte.
C15_PausedAtHighWatermark ==
    [][(/\ main_pc = "process"
        /\ main_pc' = "task"
        /\ tud_mounted
        /\ sid_engine_get_queue_depth(g_event_head, g_event_tail) >= QueueCapacity)
       => BytesRead' = BytesRead]_vars

\* the line sid2serial's wait_for_ready looks for: "[DUMP] READY" CR LF
ReadyLine == <<91, 68, 85, 77, 80, 93, 32, 82, 69, 65, 68, 89, 13, 10>>

\* C16: once the device has seen the host attached, and so before it reads
\* any byte of the session, it has transmitted the READY line, exactly once.
C16_ReadySentOnAttach ==
    (cdc_online \/ BytesRead > 0) => cdc_tx = ReadyLine

\* C17: control frames.  Once a session that ends with a control frame has
\* been read to its last byte, the control frame has been consumed whole
\* (no byte of it is left in the parser, which waits for the next header),
\* and the events delivered to the queue are those of the session's event
\* frames and nothing else.
C17_ControlFrameConsumed ==
    (/\ stream \in ControlStreams
     /\ stream[Len(stream)] = ControlFrame(SID_CMD_CYCLE_MODE)
     /\ siddler_audio_enabled
     /\ AllRead) =>
        /\ serial_buffer = <<>>
        /\ ~have_header
        /\ delivered = AllRecords

\* the three chip-model configurations, in the order CYCLE_MODE visits them
ModeConfigs == <<[c \in Cells |-> "MOS6581"],
                 [c \in Cells |-> "MOS8580"],
                 [c \in Cells |-> IF c = 0 THEN "MOS6581" ELSE "MOS8580"]>>

\* the configuration k CYCLE_MODE commands after the one siddler_audio_init sets
ModeAfter(k) == ModeConfigs[(k % 3) + 1]

\* the CYCLE_MODE control frames of the session read to their last byte
CycleModesRead ==
    Cardinality({i \in 1 .. Len(stream) :
                    /\ stream[i] = ControlFrame(SID_CMD_CYCLE_MODE)
                    /\ ItemStart(stream, i + 1) <= BytesRead})

\* C18: CYCLE_MODE.  With the audio path enabled, the chip-model
\* configuration is the one reached from the initial 6581 configuration by
\* as many steps through 6581, 8580, split as CYCLE_MODE commands have been
\* read: one command gives 8580, two give split, three give 6581 again.
C18_CycleModeAdvances ==
    siddler_audio_enabled => g_channel_model = ModeAfter(CycleModesRead)

\* C19: the compact wire form.  Once a session made of one frame in the
\* host tool's layout (10-byte header, 6-byte records) has been read to its
\* last byte with audio enabled, the frame has been completed as one frame
\* and exactly its count events have been delivered, in order, with the
\* addr, value and delta of the records.
C19_CompactFormAccepted ==
    \A evs \in CompactEventLists :
        (/\ stream = CompactSession(evs)
         /\ siddler_audio_enabled
         /\ AllRead) =>
            /\ Len(completed) = 1
            /\ Len(delivered) = Len(evs)
            /\ \A k \in 1 .. Len(evs) :
                  /\ delivered[k].addr = evs[k].addr % 32
                  /\ delivered[k].value = evs[k].value
                  /\ delivered[k].delta_cycles = evs[k].delta

\* a process_serial_stream call made while the host is detached
DetachedProcessCall ==
    /\ main_pc = "process"
    /\ main_pc' = "task"
    /\ ~tud_mounted

PumpCall ==
    /\ main_pc = "task"
    /\ main_pc' = "process"

\* C21: a host disconnect resets parser and queue while audio keeps
\* running.  Every process_serial_stream call that returns with the device
\* unmounted leaves the parser buffer empty, no header pending, the
\* remaining-event count 0 and the event queue empty; and main's next step
\* is the sample pump, which while the host is away still takes a free
\* buffer whenever there is one.
C21_DisconnectResets ==
    [][/\ DetachedProcessCall =>
             /\ serial_buffer' = <<>>
             /\ ~have_header'
             /\ events_remaining' = 0
             /\ g_event_head' = g_event_tail'
       /\ (PumpCall /\ ~tud_mounted /\ audio_ready /\ pool_free > 0) =>
             pool_free' = pool_free - 1]_vars

\* the host has gone while an event was pending, and the reset has removed it
C21_Witness ==
    /\ ~tud_mounted
    /\ ~cdc_online
    /\ main_pc = "task"
    /\ audio_ready
    /\ pushed \in 1 .. QueueCapacity
    /\ lastId < pushed
    /\ g_event_head = g_event_tail

\* a process_serial_stream call made while the bus is suspended
SuspendedProcessCall ==
    /\ main_pc = "process"
    /\ main_pc' = "task"
    /\ tud_mounted
    /\ tud_suspended

\* C22: a CDC suspension resets the parser and the event queue.  Every
\* process_serial_stream call made while the bus is suspended leaves the
\* parser buffer empty, no header pending, the remaining-event count 0 and
\* the event queue empty, so that no frame is continued after the suspend.
C22_SuspendResets ==
    [][SuspendedProcessCall =>
          /\ serial_buffer' = <<>>
          /\ ~have_header'
          /\ events_remaining' = 0
          /\ g_event_head' = g_event_tail']_vars

\* C23: telemetry monotonicity.  Across every step taken while the host
\* stays attached, the dropped-event count, the total of events and the
\* total of bytes do not decrease.
C23_TelemetryMonotonic ==
    [][(tud_mounted /\ tud_mounted') =>
          /\ g_event_drop_count' >= g_event_drop_count
          /\ sid_stats'.events_total >= sid_stats.events_total
          /\ sid_stats'.bytes_total >= sid_stats.bytes_total]_vars

\* a session in which frames were completed and an event was dropped
C23_Witness ==
    /\ tud_mounted
    /\ cdc_online
    /\ g_event_drop_count > 0
    /\ sid_stats.events_total > 0
    /\ sid_stats.bytes_total > 0

\* C24: the sample pump.  A call of siddler_audio_task made when no buffer
\* is free changes nothing: the engine is as before, no frame is rendered
\* and no event is applied.  A call made when a buffer is free takes that
\* one buffer, renders exactly max_sample_count stereo frames into it, sets
\* sample_count = max_sample_count and gives the buffer to the pool.
C24_SamplePump ==
    [][(PumpCall /\ audio_ready /\ siddler_audio_enabled) =>
          IF pool_free = 0
          THEN /\ UNCHANGED <<engineVars, pool_free, buffer_frames,
                              buffer_sample_count>>
               /\ ~lastRender'.valid
               /\ applied' = <<>>
          ELSE /\ pool_free' = pool_free - 1
               /\ buffer_frames' = SIDDLER_AUDIO_BUFFER_SAMPLES
               /\ buffer_sample_count' = SIDDLER_AUDIO_BUFFER_SAMPLES
               /\ lastRender'.valid]_vars

\* both cases of the pump have happened: a buffer was filled, and now none
\* is free
C24_Witness ==
    /\ audio_ready
    /\ siddler_audio_enabled
    /\ main_pc = "process"
    /\ pool_free = 0
    /\ buffer_frames = SIDDLER_AUDIO_BUFFER_SAMPLES
    /\ cdc_online

\* C25: status rows are read atomically.  Every row the render core draws
\* is the complete content of one writer call: its cells all carry the same
\* content, whether the row was copied under the lock or taken from the
\* cache because the lock was contended.
C25_RowsAtomic ==
    (render_pc = "draw" /\ row_valid) =>
        \A i, j \in 1 .. TEXT_COLS : row_chars[i] = row_chars[j]

\* C26: a scanline render is wait-free.  In every state the render core can
\* take its next step, whatever core 0 is doing: it never waits for
\* sid_state_lock.
C26_RenderWaitFree ==
    ENABLED NextRender

\* twice the cell output times the gain 1.5
TwiceAmplified(ch) == samples[ch] * kOutputGainNum

\* C27: stereo clamp.  For each channel the emitted sample is the cell
\* output times 1.5, saturated: 32767 when the amplified value is above
\* 32767, -32768 when it is below -32768, and otherwise the amplified value
\* itself (its integer part).
C27_StereoClamp ==
    \A ch \in 1 .. 2 :
        /\ pcm[ch] \in INT16_MIN .. INT16_MAX
        /\ TwiceAmplified(ch) >= 2 * (INT16_MAX + 1) => pcm[ch] = INT16_MAX
        /\ TwiceAmplified(ch) <= 2 * (INT16_MIN - 1) => pcm[ch] = INT16_MIN
        /\ (/\ TwiceAmplified(ch) < 2 * (INT16_MAX + 1)
            /\ TwiceAmplified(ch) > 2 * (INT16_MIN - 1)) =>
              \/ 2 * pcm[ch] = TwiceAmplified(ch)
              \/ samples[ch] > 0 /\ 2 * pcm[ch] = TwiceAmplified(ch) - 1
              \/ samples[ch] < 0 /\ 2 * pcm[ch] = TwiceAmplified(ch) + 1

\* one channel saturated at the top, the other at the bottom
C27_Witness ==
    /\ samples = <<INT16_MAX, INT16_MIN>>
    /\ pcm = <<INT16_MAX, INT16_MIN>>

\* siddler_audio_reset_state has been called
ResetCall ==
    /\ siddler_audio_enabled
    /\ AudioResetState

\* C28: after an engine reset the event queue is empty, cycles_to_next is
\* the sentinel, the drop count and the cycle residual are 0, the three
\* voice slots are inactive, and both cells have their default registers,
\* filter off and register 0x18 = 0x0F, under the per-channel models they
\* had before the reset.
C28_EngineReset ==
    [][ResetCall =>
          /\ g_event_head' = g_event_tail'
          /\ g_cycles_to_next_event' = UINT32_MAX
          /\ g_event_drop_count' = 0
          /\ g_cycle_residual' = 0
          /\ \A i \in Voices : ~g_voices'[i].active
          /\ g_channel_model' = g_channel_model
          /\ \A c \in Cells :
                /\ sid_regs'[c] = DefaultRegs
                /\ sid_regs'[c][21] = 0
                /\ sid_regs'[c][22] = 0
                /\ sid_regs'[c][23] = 0
                /\ sid_regs'[c][24] = 15]_vars

\* a state a reset has something to undo in: events pending, a residual, a
\* note playing, registers written and a split model configuration
C28_BeforeReset ==
    /\ siddler_audio_enabled
    /\ g_event_head # g_event_tail
    /\ g_cycle_residual # 0
    /\ \E i \in Voices : g_voices[i].active
    /\ g_channel_model[0] # g_channel_model[1]

\* the reset has been done after notes were played under a split model
C28_Witness ==
    /\ siddler_audio_enabled
    /\ g_voice_generation > 0
    /\ pushed > 0
    /\ g_channel_model[0] # g_channel_model[1]
    /\ g_event_head = g_event_tail
    /\ g_cycles_to_next_event = UINT32_MAX
    /\ g_cycle_residual = 0
    /\ \A i \in Voices : ~g_voices[i].active
    /\ \A c \in Cells : sid_regs[c] = DefaultRegs

\* C29: every frame that sidtap2serial writes to the serial device is a
\* header followed by exactly header.count event records, whatever the
\* voice-mute mask and the filter switch are.
C29_WrittenCountMatches ==
    serial_written.kind = "frame" =>
        serial_written.count = Len(serial_written.events)

\* C30: when the read loop has discarded the oldest half of the parser
\* buffer in a session of back-to-back valid frames, every event delivered
\* to the queue is an event record of a frame that was sent: no header
\* bytes and no misaligned bytes of a later frame are taken as the
\* remaining events of the frame in progress.
C30_DiscardKeepsFrames ==
    discards > 0 =>
        \A k \in 1 .. Len(delivered) :
            \E j \in 1 .. Len(AllRecords) : delivered[k] = AllRecords[j]

\* the push numbers of the events pending in the ring
PendingIds(head, tail, tag) ==
    {tag[slot].id : slot \in
        {x \in Slots : (x + kEventQueueSize - head) % kEventQueueSize
                           < sid_engine_get_queue_depth(head, tail)}}

\* the push numbers of the events the last operation applied
AppliedIds == {applied[k].id : k \in 1 .. Len(applied)}

\* C31: event accounting. A queue reset leaves no pending event and a zero
\* drop count; every other operation of the engine keeps the balance: the
\* events pending before it and the event it pushes are afterwards either
\* pending, or applied exactly once, or dropped, and the drop count grows by
\* exactly the number of events that were neither applied nor kept, so that
\* pushed = applied + dropped_count + get_queue_depth since the last reset.
C31_EventAccounting ==
    [][LET before == PendingIds(g_event_head, g_event_tail, slot_tag)
           new == IF pushed' > pushed THEN {pushed'} ELSE {}
           after == PendingIds(g_event_head', g_event_tail', slot_tag')
           done == AppliedIds'
           depth == sid_engine_get_queue_depth(g_event_head, g_event_tail)
           depth1 == sid_engine_get_queue_depth(g_event_head', g_event_tail')
       IN  IF ResetQueueState
           THEN depth1 = 0 /\ g_event_drop_count' = 0 /\ done = {}
           ELSE /\ Cardinality(before) = depth
                /\ Cardinality(after) = depth1
                /\ Cardinality(done) = Len(applied')
                /\ done \subseteq before \cup new
                /\ after \subseteq before \cup new
                /\ done \cap after = {}
                /\ g_event_drop_count' - g_event_drop_count
                      = Cardinality((before \cup new) \ (done \cup after))
                /\ Cardinality(new)
                      = Len(applied') + (g_event_drop_count' - g_event_drop_count)
                           + (depth1 - depth)]_vars

\* a push that dropped the oldest event has been followed by a render that
\* applied an event while another one stays pending
C31_Witness ==
    /\ g_event_drop_count > 0
    /\ Len(applied) > 0
    /\ lastRender.valid
    /\ sid_engine_get_queue_depth(g_event_head, g_event_tail) > 0

\* C32: the ring never holds more than kEventQueueSize - 1 pending events,
\* and a push drops the oldest event exactly when kEventQueueSize - 1 events
\* are pending at the call, never earlier and never later.
C32_RingBound ==
    /\ [](sid_engine_get_queue_depth(g_event_head, g_event_tail)
             <= kEventQueueSize - 1)
    /\ [][pushed' > pushed =>
            /\ (g_event_drop_count' = g_event_drop_count + 1)
                  <=> (sid_engine_get_queue_depth(g_event_head, g_event_tail)
                          = kEventQueueSize - 1)
            /\ g_event_drop_count' \in {g_event_drop_count, g_event_drop_count + 1}
            /\ (g_event_drop_count' # g_event_drop_count) => lastDrop'.valid]_vars

\* the ring is full after a push that dropped the oldest event
C32_Witness ==
    /\ lastDrop.valid
    /\ g_event_drop_count > 0
    /\ sid_engine_get_queue_depth(g_event_head, g_event_tail) = kEventQueueSize - 1

\* C33: in every render_frame call the clocking loop ends, after at most one
\* pass more than the events the call applies, and both SID cells have been
\* clocked the same total number of cycles, the cycle count computed for
\* the sample, however many events fire during the call and whatever the
\* deltas in the queue are.
C33_ClockTotal ==
    lastRender.valid =>
        /\ \A c \in Cells : lastRender.rclk[c] = lastRender.cycles
        /\ lastRender.passes >= 1
        /\ lastRender.passes <= Len(applied) + 1

\* a render of several cycles during which two events fired in different
\* passes of the loop
C33_Witness ==
    /\ lastRender.valid
    /\ lastRender.cycles >= 2
    /\ lastRender.passes >= 3
    /\ Len(applied) >= 2

\* C34 as stated: when cycles_per_sample >= 1, after n renders since the
\* last reset the cycles clocked are floor(n * c64_clock / sample_rate) and
\* the residual is in [0, 1).
C34_ExactTotal ==
    (tally.valid /\ kC64ClockHz >= g_sample_rate_hz) =>
        /\ tally.cycles = (tally.renders * kC64ClockHz) \div g_sample_rate_hz
        /\ 0 <= g_cycle_residual
        /\ g_cycle_residual < One

\* C34, amended: the residual stays in [0, 1); every render clocks the integer
\* part of the double sum residual + cycles_per_sample and carries the
\* fraction of that sum; and as long as the quotient and the sums are exact
\* doubles, the cycles clocked after n renders are
\* floor(n * c64_clock / sample_rate) with the exact remainder as residual.
C34_ResidualCarried ==
    /\ [](/\ 0 <= g_cycle_residual
          /\ g_cycle_residual < One
          /\ (tally.valid /\ tally.exact /\ kC64ClockHz >= g_sample_rate_hz) =>
                /\ tally.cycles
                      = (tally.renders * kC64ClockHz) \div g_sample_rate_hz
                /\ g_cycle_residual * g_sample_rate_hz
                      = ((tally.renders * kC64ClockHz) % g_sample_rate_hz) * One)
    /\ [][(lastRender'.valid /\ kC64ClockHz >= g_sample_rate_hz) =>
             lastRender'.cycles * One + g_cycle_residual'
                = double_add(g_cycle_residual,
                             g_cycles_per_sample(g_sample_rate_hz))]_vars

\* three renders at an exact quotient, a residual carried into the last one
C34_Witness ==
    /\ tally.valid
    /\ tally.exact
    /\ tally.renders = 3
    /\ g_cycle_residual > 0
    /\ lastRender.valid
    /\ tally.cycles = (3 * kC64ClockHz) \div g_sample_rate_hz

\* the chip models a call of sid_engine_set_channel_models asks for
RequestedModels(left_6581, right_6581) ==
    [c \in Cells |-> IF (IF c = 0 THEN left_6581 ELSE right_6581)
                     THEN "MOS6581" ELSE "MOS8580"]

\* C35: sid_engine_set_channel_models leaves the ring with its pending
\* events, their order and deltas, cycles_to_next and the drop count as they
\* are, and changes nothing of the engine when the models asked for are the
\* current ones: no register, no note slot, residual kept.
C35_ModelsKeepQueue ==
    [][\A l, r \in BOOLEAN :
          SetChannelModels(l, r) =>
             /\ UNCHANGED <<g_event_queue, g_event_head, g_event_tail,
                            g_cycles_to_next_event, g_event_drop_count>>
             /\ g_channel_model' = RequestedModels(l, r)
             /\ RequestedModels(l, r) = g_channel_model => UNCHANGED engineVars]_vars

\* the models have been changed after a note was played, with every event
\* the session pushes still pending
C35_Witness ==
    /\ g_channel_model # [c \in Cells |-> "MOS6581"]
    /\ sid_engine_get_queue_depth(g_event_head, g_event_tail) = MaxResetPush
    /\ pushed = MaxResetPush
    /\ g_voice_generation > 0
    /\ \A c \in Cells : sid_regs[c] = DefaultRegs
    /\ \A i \in Voices : ~g_voices[i].active

\* C36: while audio is not enabled no step of the device touches the engine:
\* the queue, its head, tail and counters, the cells and their registers and
\* the buffer pool stay as they are, and no parsed event is queued, whether
\* the step parses events, runs the audio task or resets on a detach.
C36_DisabledInert ==
    [][~siddler_audio_enabled =>
          /\ ~siddler_audio_enabled'
          /\ UNCHANGED <<engineVars, pushed, delivered, pool_free>>]_vars

\* audio has been shut down with events pending, and a frame parsed after
\* that has been counted without being queued
C36_Witness ==
    /\ ~siddler_audio_enabled
    /\ audio_ready
    /\ pushed > 0
    /\ sid_stats.events_total > pushed
    /\ sid_engine_get_queue_depth(g_event_head, g_event_tail) > 0

\* the note is held by an active slot
Sounding(midi_note) ==
    \E i \in Voices : g_voices[i].active /\ g_voices[i].note = midi_note

\* C37: note_on for a note that is not sounding writes one slot: the
\* lowest-indexed inactive slot if there is one, otherwise the slot of the
\* smallest generation, which is the slot whose last note_on is the oldest.
C37_VoiceAllocation ==
    [][\A n \in VoiceNotes, v \in Velocities :
          (NoteOnCall(n, v) /\ ~Sounding(n)) =>
             LET free == {i \in Voices : ~g_voices[i].active}
                 taken == LastTriggered(voice_trace')
             IN  /\ taken \in Voices
                 /\ g_voices'[taken].active
                 /\ g_voices'[taken].note = n
                 /\ \A i \in Voices \ {taken} : g_voices'[i] = g_voices[i]
                 /\ free # {} => /\ taken \in free
                                 /\ \A j \in free : taken <= j
                 /\ free = {} =>
                       /\ \A j \in Voices : g_voices[taken].generation
                                               <= g_voices[j].generation
                       /\ taken = Head(voice_trace.order)]_vars

\* with three notes sounding a fourth has stolen slot 0 and a fifth slot 1
C37_Witness ==
    /\ \A i \in Voices : g_voices[i].active
    /\ g_voice_generation = 5
    /\ voice_trace.order = <<2, 0, 1>>
    /\ ~voice_trace.retriggered
    /\ g_voices[1].generation = 5
    /\ g_voices[0].generation = 4
    /\ g_voices[2].generation = 3

\* C38: no two active slots hold the same note, and note_on for a note that
\* is sounding writes the slot that holds it and no other.
C38_OneSlotPerNote ==
    /\ [](\A i, j \in Voices :
             (i # j /\ g_voices[i].active /\ g_voices[j].active)
                => g_voices[i].note # g_voices[j].note)
    /\ [][\A n \in VoiceNotes, v \in Velocities :
             (NoteOnCall(n, v) /\ Sounding(n)) =>
                LET held == CHOOSE i \in Voices :
                               g_voices[i].active /\ g_voices[i].note = n
                IN  /\ g_voices'[held] = [active |-> TRUE, note |-> n,
                                          velocity |-> v,
                                          generation |-> g_voice_generation']
                    /\ g_voice_generation' = g_voice_generation + 1
                    /\ \A i \in Voices \ {held} : g_voices'[i] = g_voices[i]]_vars

\* a note sounding in slot 0 has been triggered again while another note
\* sounds in slot 1
C38_Witness ==
    /\ voice_trace.retriggered
    /\ voice_trace.order = <<1, 0>>
    /\ g_voices[0].active
    /\ g_voices[1].active
    /\ g_voices[0].generation > g_voices[1].generation

\* the events of a frame that the mute mask and the filter switch let through
Survivors(raw) ==
    SelectSeq(raw, LAMBDA ev : ~should_drop_sid_event(ev.addr, g_voice_mute_mask,
                                                      g_filter_enabled))

\* C39: apply_voice_filtering keeps the surviving events of a frame in
\* their order and, when no delta saturates, the deltas of the filtered
\* frame add up to the deltas of the frame before filtering, wherever the
\* removed events are.
C39_FilterKeepsTime ==
    [][\A raw \in HostFrames :
          ForwardFrame(raw) =>
             LET kept == apply_voice_filtering(raw, g_voice_mute_mask,
                                               g_filter_enabled)
             IN  /\ Len(kept) = Len(Survivors(raw))
                 /\ \A k \in 1 .. Len(kept) :
                       /\ kept[k].addr = Survivors(raw)[k].addr
                       /\ kept[k].value = Survivors(raw)[k].value
                 /\ total_delta(raw) <= UINT32_MAX
                       => total_delta(kept) = total_delta(raw)]_vars

\* C40: serial_buffer_len never exceeds SERIAL_BUFFER_SIZE, no byte is
\* stored at an index outside the array and the parse offset is at most
\* serial_buffer_len when the buffer is compacted, in a session whose FIFO
\* delivers more bytes at once than the buffer holds.
C40_BufferBounded ==
    /\ Len(serial_buffer) <= SERIAL_BUFFER_SIZE
    /\ stored_in_bounds

\* the buffer was full when a byte arrived: the oldest half was discarded
\* and bytes were stored after it
C40_Witness ==
    /\ discards > 0
    /\ stored_in_bounds
    /\ buf_base >= SERIAL_BUFFER_SIZE \div 2
    /\ Len(serial_buffer) > 0


====
